---------------------------- MODULE Spec2Model ----------------------------
(***************************************************************************)
(* A model of the DMET self-consistency engine of pydmet:                  *)
(*   src/dmet_sc.py          (driver dmet_sc_cycle, EmbSys of dmet_sc)      *)
(*   src/dmet_global_new.py  (driver EmbSys.scdmet with the global fit)     *)
(*                                                                         *)
(* Numbers.  Real quantities that are compared with the convergence        *)
(* thresholds (dv, de, decorr, the thresholds themselves, potential        *)
(* entries) live on a fixed-point grid whose unit is 1e-6, so that the     *)
(* default conv_threshold 1e-5 is 10 units.  Energies and electron counts  *)
(* are integers.  Python lists are sequences: the entry with Python index  *)
(* m is at position m+1; basis indices inside the lists stay 0-based.      *)
(***************************************************************************)
EXTENDS Integers, Sequences, FiniteSets, TLC

VARIABLES
    args,   \* the arguments of the function under check (function specifications)
    ret,    \* what that function returned, NoRet before the call
    cfg,    \* the configuration attributes of the driver's EmbSys object
    pc,     \* the statement of the driver that is executed next
    es,     \* the mutable state of the EmbSys object (reference SCF, embeddings)
    lv,     \* the local variables of the driver function
    gh      \* history of the run: stages executed, calls counted

vars == <<args, ret, cfg, pc, es, lv, gh>>

NoRet == [done |-> FALSE]           \* ret before the call
Ret(v) == [done |-> TRUE, val |-> v]
Idle  == [fn |-> "idle"]            \* a variable the specification does not use

Abs(x) == IF x < 0 THEN -x ELSE x

(***************************************************************************)
(* Bounds of the model.                                                    *)
(***************************************************************************)
MaxThr == 2     \* thresholds range over -1..MaxThr and the multiples 10*k, k <= MaxThr
MaxIn  == 2     \* dv, de, decorr handed to check_conv range over 0..MaxIn

(***************************************************************************)
(* EmbSys.__init__ defaults, src/dmet_sc.py:81-85.                         *)
(***************************************************************************)
DefaultMaxIter       == 40
DefaultConvThreshold == 10

(***************************************************************************)
(* _check_conv(embsys, dv, de, decorr), src/dmet_sc.py:744-757.            *)
(* The three statements rebind conv in turn; `de < conv_threshold * .1`   *)
(* is the comparison 10*de < conv_threshold.                               *)
(***************************************************************************)
check_conv_prec(embsys, dv, de, decorr) ==
    \* the precedence of the commented-out test of dmet_sc.py:732-733
    LET tv == IF embsys.conv_threshold_vfit > 0
              THEN embsys.conv_threshold_vfit ELSE embsys.conv_threshold
        tc == IF embsys.conv_threshold_corr > 0
              THEN embsys.conv_threshold_corr ELSE embsys.conv_threshold
        de_ok == IF embsys.conv_threshold_etot > 0
                 THEN de < embsys.conv_threshold_etot
                 ELSE de * 10 < embsys.conv_threshold
    IN  (dv < tv /\ de_ok) \/ decorr < tc

check_conv(embsys, dv, de, decorr) ==
    LET conv1 == IF embsys.conv_threshold_vfit > 0
                 THEN dv < embsys.conv_threshold_vfit
                 ELSE dv < embsys.conv_threshold
        conv2 == IF embsys.conv_threshold_etot > 0
                 THEN conv1 \/ de < embsys.conv_threshold_etot
                 ELSE conv1 \/ de * 10 < embsys.conv_threshold
        conv3 == IF embsys.conv_threshold_corr > 0
                 THEN conv2 /\ decorr < embsys.conv_threshold_corr
                 ELSE conv2 /\ decorr < embsys.conv_threshold
    IN  conv3

(***************************************************************************)
(* Data of the drivers.                                                    *)
(*                                                                         *)
(* A fragment potential (one entry of v_mf_group / v_ci_group, emb.vfit_mf *)
(* / emb.vfit_ci) is held as [d, o]: d the value of its impurity diagonal  *)
(* entries and o the value of its impurity off-diagonal entries.           *)
(* An entry of basidx_group is a flat list of basis indices or a list of   *)
(* such lists (the symmetry copies of one fragment); `sym` holds what      *)
(* isinstance(frag_basidx[0], int) tells the code.                         *)
(***************************************************************************)
Pot(d, o) == [d |-> d, o |-> o]
ZeroPot   == Pot(0, 0)
PotAdd(a, b) == Pot(a.d + b.d, a.o + b.o)

Flat(bas_idx)   == [sym |-> FALSE, copies |-> <<bas_idx>>]
Copies(lists)   == [sym |-> TRUE, copies |-> lists]

RECURSIVE SumSeq(_)
SumSeq(q) == IF q = <<>> THEN 0 ELSE q[1] + SumSeq(Tail(q))

RECURSIVE Flatten(_)
Flatten(qq) == IF qq = <<>> THEN <<>> ELSE qq[1] \o Flatten(Tail(qq))

\* the largest r with r*r <= n: a norm sqrt(n) is below an integer threshold
\* exactly when ISqrt(n) is
ISqrt(n) == CHOOSE r \in 0 .. n : r * r <= n /\ (r + 1) * (r + 1) > n

(***************************************************************************)
(* EmbSys.gen_frag_looper, src/dmet_sc.py:321-362, for a basidx_group      *)
(* given directly (frag_group empty): (all_frags, uniq_frags), each entry  *)
(* [m, bas_idx] with m the 1-based position of the entry of basidx_group.  *)
(***************************************************************************)
gen_frag_looper(basidx_group) ==
    [all_frags |->
        Flatten([emb_id \in 1 .. Len(basidx_group) |->
            [k \in 1 .. Len(basidx_group[emb_id].copies) |->
                [m |-> emb_id, bas_idx |-> basidx_group[emb_id].copies[k]]]]),
     uniq_frags |->
        [emb_id \in 1 .. Len(basidx_group) |->
            [m |-> emb_id, bas_idx |-> basidx_group[emb_id].copies[1]]]]

(***************************************************************************)
(* EmbSys.assemble_frag_energy of dmet_sc, src/dmet_sc.py:396-420.         *)
(* sol[m] = [e_frag, nelec_frag] is what solver.run followed by            *)
(* extract_frag_energy gives for embs[m]; the loop runs over all_frags and *)
(* calls the solver when the fragment id differs from last_frag.           *)
(***************************************************************************)
AsmStart(embs) ==
    [e_tot |-> 0, nelec |-> 0, e_corr |-> 0, last_frag |-> 0,
     emb |-> 0, e_frag |-> 0, nelec_frag |-> 0,
     ncall |-> [m \in 1 .. Len(embs) |-> 0]]

asm_step_always_solve(acc, m, embs, sol) ==
    \* the loop body without the `if m != last_frag` test
    [e_tot |-> acc.e_tot + sol[m].e_frag,
     nelec |-> acc.nelec + sol[m].nelec_frag,
     e_corr |-> acc.e_corr + (sol[m].e_frag - embs[m].ehfinhf),
     last_frag |-> m, emb |-> m,
     e_frag |-> sol[m].e_frag, nelec_frag |-> sol[m].nelec_frag,
     ncall |-> [acc.ncall EXCEPT ![m] = @ + 1]]

asm_step_uniq_only(acc, m, embs, sol) ==
    \* the loop body with the sums taken for unique fragments only
    IF m # acc.last_frag
    THEN asm_step_always_solve(acc, m, embs, sol)
    ELSE acc

asm_step(acc, m, embs, sol) ==
    LET run    == m # acc.last_frag
        emb    == IF run THEN m ELSE acc.emb
        e_frag == IF run THEN sol[m].e_frag ELSE acc.e_frag
        nelec_frag == IF run THEN sol[m].nelec_frag ELSE acc.nelec_frag
    IN  [e_tot |-> acc.e_tot + e_frag,
         nelec |-> acc.nelec + nelec_frag,
         e_corr |-> acc.e_corr + (e_frag - embs[emb].ehfinhf),
         last_frag |-> m, emb |-> emb,
         e_frag |-> e_frag, nelec_frag |-> nelec_frag,
         ncall |-> IF run THEN [acc.ncall EXCEPT ![m] = @ + 1] ELSE acc.ncall]

RECURSIVE AsmLoop(_, _, _, _, _)
AsmLoop(k, acc, all_frags, embs, sol) ==
    IF k > Len(all_frags) THEN acc
    ELSE AsmLoop(k + 1, asm_step(acc, all_frags[k].m, embs, sol),
                 all_frags, embs, sol)

\* the energy with the fragment counted twice
assemble_frag_energy_twice(all_frags, embs, sol) ==
    AsmLoop(1, AsmStart(embs), all_frags \o all_frags, embs, sol)

assemble_frag_energy(all_frags, embs, sol) ==
    AsmLoop(1, AsmStart(embs), all_frags, embs, sol)

(***************************************************************************)
(* EmbSys.diff_vfit, src/dmet_sc.py:495-506: over the unique fragments,    *)
(* 4 * |difference of the strictly lower triangle of the impurity block    *)
(* of vfit_mf|^2, summed, and its square root.  A fragment with nimp basis *)
(* functions has nimp*(nimp-1)/2 such entries, each of value o.            *)
(***************************************************************************)
NTril(nimp) == (nimp * (nimp - 1)) \div 2

diff_vfit(uniq_frags, v_group, v_group_old) ==
    LET ss == SumSeq([m \in 1 .. Len(uniq_frags) |->
                  NTril(Len(uniq_frags[m].bas_idx))
                  * (v_group[1][m].o - v_group_old[1][m].o)
                  * (v_group[1][m].o - v_group_old[1][m].o) * 4])
    IN  ISqrt(ss)

(***************************************************************************)
(* de = abs(1-e_tot_old/e_tot) and decorr = abs(e_corr-e_corr_old),        *)
(* src/dmet_sc.py:725-726, on the grid.  The energies are numpy floats: a  *)
(* zero e_tot gives inf or nan, which is below no threshold.               *)
(***************************************************************************)
OneUnits == DefaultConvThreshold * 100000    \* 1.0 on the grid
NotBelow == OneUnits * 100                   \* stands for inf and nan

rel_change(e_tot_old, e_tot) ==
    IF e_tot = 0 THEN NotBelow
    ELSE (Abs(e_tot - e_tot_old) * OneUnits) \div Abs(e_tot)

abs_change(e_corr, e_corr_old) == Abs(e_corr - e_corr_old) * OneUnits

(***************************************************************************)
(* The driver dmet_sc_cycle(mol, embsys), src/dmet_sc.py:690-742.          *)
(*                                                                         *)
(* pc names the statement executed next:                                   *)
(*   init          695  embsys.init_embsys(mol)                            *)
(*   fit_ci0       696  embsys.vfit_ci_method(mol, embsys)                 *)
(*   upd_ci0       697  embsys.update_embs_vfit_ci(...)                    *)
(*   asm0          700  embsys.assemble_frag_energy(mol); v_group = ...     *)
(*   loop          705  for icyc in range(embsys.max_iter)                 *)
(*   fit_mf        711  embsys.vfit_mf_method(mol, embsys)                 *)
(*   update_embsys 712  embsys.update_embsys(mol, v_mf_group)              *)
(*   fit_ci        714  embsys.vfit_ci_method(mol, embsys)                 *)
(*   upd_ci        715  embsys.update_embs_vfit_ci(...)                    *)
(*   asm           719  embsys.assemble_frag_energy(mol); v_group = ...     *)
(*   check         722  diff_vfit, de, decorr, _check_conv, break          *)
(*   ret           742  return e_tot, v_mf_group, v_ci_group               *)
(* The external solvers (mean-field SCF, correlated solver, least-squares  *)
(* fit, Newton root-find) return any value of the sets below.              *)
(***************************************************************************)
MaxIter == 2                                 \* max_iter ranges over 0..MaxIter

MfDeltas == {Pot(0, 0), Pot(0, 8)}           \* damped update of fit_solver
CiVals   == {0, 1}                           \* root of the Newton search
EVals    == {0, 1}                           \* e_frag of one fragment
NVals    == {2}                              \* nelec_frag of one fragment
EhfVals  == {1}                              \* emb._ehfinhf of a rebuilt embedding

ScGroups ==
    {<<Flat(<<0, 1>>)>>,
     <<Copies(<<(<<0, 1>>), (<<2, 3>>)>>)>>,
     <<Flat(<<0, 1>>), Flat(<<2>>)>>}

DriverCfgs ==
    [max_iter : 0 .. MaxIter,
     conv_threshold : {0, DefaultConvThreshold},
     conv_threshold_etot : {0},
     conv_threshold_corr : {0},
     conv_threshold_vfit : {0}]

\* the statement that follows a call statement
pc_after_energy_late(p) ==
    \* the energy assembled only after the next update_embsys
    CASE p = "init"          -> "fit_ci0"
      [] p = "fit_ci0"       -> "upd_ci0"
      [] p = "upd_ci0"       -> "asm0"
      [] p = "asm0"          -> "loop"
      [] p = "fit_mf"        -> "fit_ci"
      [] p = "fit_ci"        -> "upd_ci"
      [] p = "upd_ci"        -> "update_embsys"
      [] p = "update_embsys" -> "asm"
      [] p = "asm"           -> "check"

pc_after_without_resolve(p) ==
    \* the loop without the call of update_embsys
    CASE p = "init"          -> "fit_ci0"
      [] p = "fit_ci0"       -> "upd_ci0"
      [] p = "upd_ci0"       -> "asm0"
      [] p = "asm0"          -> "loop"
      [] p = "fit_mf"        -> "fit_ci"
      [] p = "update_embsys" -> "fit_ci"
      [] p = "fit_ci"        -> "upd_ci"
      [] p = "upd_ci"        -> "asm"
      [] p = "asm"           -> "check"

PcAfter(p) ==
    CASE p = "init"          -> "fit_ci0"
      [] p = "fit_ci0"       -> "upd_ci0"
      [] p = "upd_ci0"       -> "asm0"
      [] p = "asm0"          -> "loop"
      [] p = "fit_mf"        -> "update_embsys"
      [] p = "update_embsys" -> "fit_ci"
      [] p = "fit_ci"        -> "upd_ci"
      [] p = "upd_ci"        -> "asm"
      [] p = "asm"           -> "check"

\* `for icyc in range(max_iter)`: icyc iterations are complete
loop_continues_incl(icyc, max_iter) == icyc <= max_iter
loop_continues(icyc, max_iter) == icyc < max_iter

NEmb == Len(es.embs)

\* the history: the stage entered, the one before it
SetStage(g, s) == IF g.stage = s THEN g ELSE [g EXCEPT !.prev = g.stage, !.stage = s]

InitGh ==
    [stage |-> "START", prev |-> "START",
     it |-> 0,              \* the iteration of the stage, 0 before the loop
     mf_it |-> -1,          \* the iteration of the last FIT_MF
     rg_it |-> -1,          \* the iteration of the last RESOLVE_GLOBAL
     n_update |-> 0,        \* update_embsys calls
     n_fit_mf |-> 0,        \* vfit_mf_method calls
     n_check |-> 0,         \* convergence tests made
     conv_seen |-> FALSE,   \* a convergence test was true
     mf_fit |-> <<>>,       \* what the last FIT_MF (or INIT) produced
     ci_fit |-> <<>>,       \* what the last FIT_CORR produced
     ci_on |-> <<>>,        \* the reference each fragment's vfit_ci was fitted on
     ci_upd |-> 0,          \* n_update at the last FIT_CORR
     ci_mf |-> <<>>,        \* vfit_mf at the last FIT_CORR
     asm |-> [done |-> FALSE],   \* the last energy assembly
     last |-> [done |-> FALSE],  \* energy and potentials of the last iteration
     e_prev |-> 0]          \* e_tot of the energy assembly before the last one

InitLv ==
    [icyc |-> 0, v_mf_group |-> <<>>, v_ci_group |-> <<>>,
     e_tot |-> 0, e_corr |-> 0, nelec |-> 0,
     v_group |-> <<>>, v_group_old |-> <<>>, e_tot_old |-> 0, e_corr_old |-> 0,
     dv |-> 0, de |-> 0, decorr |-> 0]

InitSc ==
    /\ cfg \in DriverCfgs
    /\ \E g \in ScGroups :
          \* two unique fragments square the solvers' choices: one iteration less
          /\ Len(g) > 1 => cfg.max_iter < MaxIter
          /\ es = [driver |-> "sc", basidx_group |-> g, entire_scf |-> 0,
                all_frags |-> <<>>, uniq_frags |-> <<>>, embs |-> <<>>]
    /\ lv = InitLv
    /\ gh = InitGh
    /\ pc = "init"
    /\ args = Idle
    /\ ret = NoRet

(***************************************************************************)
(* EmbSys.init_embsys = build_, src/dmet_sc.py:147-191, with _init_v None: *)
(* the fragments, one embedding per unique fragment built on entire_scf    *)
(* (update_embs, 194-260), zero potentials, update_embs_vfit_ci and        *)
(* update_embs_vfit_mf with those zero potentials.                         *)
(***************************************************************************)
InitEmbsys ==
    /\ es.driver = "sc"
    /\ pc = "init"
    /\ LET fl == gen_frag_looper(es.basidx_group)
           n  == Len(fl.uniq_frags)
       IN  \E h \in [1 .. n -> EhfVals] :
             /\ es' = [es EXCEPT
                    !.all_frags = fl.all_frags,
                    !.uniq_frags = fl.uniq_frags,
                    !.embs = [m \in 1 .. n |->
                        [bas_on_frag |-> fl.uniq_frags[m].bas_idx,
                         built_on |-> es.entire_scf,
                         ehfinhf |-> h[m],
                         vfit_mf |-> ZeroPot,
                         vfit_ci |-> ZeroPot]]]
             /\ lv' = [lv EXCEPT !.v_mf_group = [m \in 1 .. n |-> ZeroPot]]
             /\ gh' = [SetStage(gh, "INIT") EXCEPT
                    !.mf_fit = [m \in 1 .. n |-> ZeroPot]]
    /\ pc' = PcAfter(pc)
    /\ UNCHANGED <<args, ret, cfg>>

(***************************************************************************)
(* vfit_ci_method = gen_all_vfit_by(fit_chemical_potential),               *)
(* src/dmet_sc.py:630-685: per embedding, a copy of emb.vfit_ci whose      *)
(* impurity diagonal is the root v1 of the Newton search.                  *)
(***************************************************************************)
VfitCiMethod ==
    /\ es.driver = "sc"
    /\ pc \in {"fit_ci0", "fit_ci"}
    /\ \E v1 \in [1 .. NEmb -> CiVals] :
          /\ lv' = [lv EXCEPT !.v_ci_group =
                        [m \in 1 .. NEmb |-> Pot(v1[m], es.embs[m].vfit_ci.o)]]
          /\ gh' = [SetStage(gh, "FIT_CORR") EXCEPT
                        !.ci_fit = [m \in 1 .. NEmb |-> Pot(v1[m], es.embs[m].vfit_ci.o)],
                        !.ci_on = [m \in 1 .. NEmb |-> es.embs[m].built_on],
                        !.ci_upd = gh.n_update,
                        !.ci_mf = [m \in 1 .. NEmb |-> es.embs[m].vfit_mf]]
    /\ pc' = PcAfter(pc)
    /\ UNCHANGED <<args, ret, cfg, es>>

(***************************************************************************)
(* EmbSys.update_embs_vfit_ci, src/dmet_sc.py:262-293: stores each          *)
(* potential in its embedding and runs the embedded SCF.                   *)
(***************************************************************************)
UpdateEmbsVfitCi ==
    /\ es.driver = "sc"
    /\ pc \in {"upd_ci0", "upd_ci"}
    /\ es' = [es EXCEPT !.embs =
                 [m \in 1 .. NEmb |-> [es.embs[m] EXCEPT !.vfit_ci = lv.v_ci_group[m]]]]
    /\ gh' = SetStage(gh, "FIT_CORR")
    /\ pc' = PcAfter(pc)
    /\ UNCHANGED <<args, ret, cfg, lv>>

(***************************************************************************)
(* assemble_frag_energy and `v_group = ...`, src/dmet_sc.py:700-701 and    *)
(* 719-720.                                                                *)
(***************************************************************************)
AssembleFragEnergy ==
    /\ es.driver = "sc"
    /\ pc \in {"asm0", "asm"}
    /\ \E sol \in [1 .. NEmb -> [e_frag : EVals, nelec_frag : NVals]] :
          LET r == assemble_frag_energy(es.all_frags, es.embs, sol)
          IN  /\ lv' = [lv EXCEPT !.e_tot = r.e_tot, !.e_corr = r.e_corr,
                                  !.nelec = r.nelec,
                                  !.v_group = <<lv.v_mf_group, lv.v_ci_group>>]
              /\ gh' = [SetStage(gh, "ASSEMBLE_ENERGY") EXCEPT
                    !.asm = [done |-> TRUE, it |-> gh.it,
                             scf |-> es.entire_scf,
                             built_on |-> [m \in 1 .. NEmb |-> es.embs[m].built_on],
                             ci_on |-> gh.ci_on,
                             ci_used |-> [m \in 1 .. NEmb |-> es.embs[m].vfit_ci],
                             ci_fit |-> gh.ci_fit,
                             n_update |-> gh.n_update, ci_upd |-> gh.ci_upd,
                             mf_now |-> [m \in 1 .. NEmb |-> es.embs[m].vfit_mf],
                             ci_mf |-> gh.ci_mf],
                    !.e_prev = lv.e_tot,
                    !.last = [done |-> TRUE, it |-> gh.it, e_tot |-> r.e_tot,
                              v_mf_group |-> gh.mf_fit, v_ci_group |-> gh.ci_fit]]
    /\ pc' = PcAfter(pc)
    /\ UNCHANGED <<args, ret, cfg, es>>

(***************************************************************************)
(* The loop head and lines 706-708.                                        *)
(***************************************************************************)
LoopHead ==
    /\ es.driver = "sc"
    /\ pc = "loop"
    /\ IF loop_continues(lv.icyc, cfg.max_iter)
       THEN /\ lv' = [lv EXCEPT !.v_group_old = lv.v_group,
                                !.e_tot_old = lv.e_tot,
                                !.e_corr_old = lv.e_corr]
            /\ pc' = "fit_mf"
       ELSE /\ pc' = "ret"
            /\ UNCHANGED lv
    /\ UNCHANGED <<args, ret, cfg, es, gh>>

(***************************************************************************)
(* vfit_mf_method = gen_all_vfit_by(fit_without_local_scf),                *)
(* src/dmet_sc.py:593-616: per embedding, emb.vfit_mf plus the damped      *)
(* solution dv of the least-squares fit.                                   *)
(***************************************************************************)
VfitMfMethod ==
    /\ es.driver = "sc"
    /\ pc = "fit_mf"
    /\ \E dv \in [1 .. NEmb -> MfDeltas] :
          /\ lv' = [lv EXCEPT !.v_mf_group =
                        [m \in 1 .. NEmb |-> PotAdd(es.embs[m].vfit_mf, dv[m])]]
          /\ gh' = [SetStage(gh, "FIT_MF") EXCEPT
                        !.it = lv.icyc + 1, !.mf_it = lv.icyc + 1, !.n_fit_mf = @ + 1,
                        !.mf_fit = [m \in 1 .. NEmb |-> PotAdd(es.embs[m].vfit_mf, dv[m])]]
    /\ pc' = PcAfter(pc)
    /\ UNCHANGED <<args, ret, cfg, es>>

(***************************************************************************)
(* EmbSys.update_embsys, src/dmet_sc.py:380-393: the mean-field solver is  *)
(* run with the assembled potential, its result becomes entire_scf, every  *)
(* embedding is rebuilt on it (update_embs) and takes its new vfit_mf      *)
(* (update_embs_vfit_mf, env_pot_for_ci = NO_ENV_POT).                     *)
(***************************************************************************)
UpdateEmbsys ==
    /\ es.driver = "sc"
    /\ pc = "update_embsys"
    /\ \E h \in [1 .. NEmb -> EhfVals] :
          es' = [es EXCEPT
                    !.entire_scf = @ + 1,
                    !.embs = [m \in 1 .. NEmb |->
                        [es.embs[m] EXCEPT !.built_on = es.entire_scf + 1,
                                           !.ehfinhf = h[m],
                                           !.vfit_mf = lv.v_mf_group[m]]]]
    /\ gh' = [SetStage(gh, "RESOLVE_GLOBAL") EXCEPT
                    !.rg_it = gh.it, !.n_update = @ + 1]
    /\ pc' = PcAfter(pc)
    /\ UNCHANGED <<args, ret, cfg, lv>>

(***************************************************************************)
(* The convergence test, src/dmet_sc.py:722-736.                           *)
(***************************************************************************)
CheckConv ==
    /\ es.driver = "sc"
    /\ pc = "check"
    /\ LET dv     == diff_vfit(es.uniq_frags, lv.v_group, lv.v_group_old)
           de     == rel_change(lv.e_tot_old, lv.e_tot)
           decorr == abs_change(lv.e_corr, lv.e_corr_old)
           conv   == check_conv(cfg, dv, de, decorr)
       IN  /\ lv' = [lv EXCEPT !.dv = dv, !.de = de, !.decorr = decorr,
                               !.icyc = IF conv THEN @ ELSE @ + 1]
           /\ gh' = [SetStage(gh, "CHECK_CONV") EXCEPT
                        !.n_check = @ + 1,
                        !.conv_seen = conv]
           /\ pc' = IF conv THEN "ret" ELSE "loop"
    /\ UNCHANGED <<args, ret, cfg, es>>

(***************************************************************************)
(* return e_tot, v_mf_group, v_ci_group, src/dmet_sc.py:742.               *)
(***************************************************************************)
return_value_old(l) ==
    \* the values saved at the top of the iteration
    [e_tot |-> l.e_tot_old,
     v_mf_group |-> IF l.v_group_old = <<>> THEN l.v_mf_group ELSE l.v_group_old[1],
     v_ci_group |-> IF l.v_group_old = <<>> THEN l.v_ci_group ELSE l.v_group_old[2]]

return_value(l) ==
    [e_tot |-> l.e_tot, v_mf_group |-> l.v_mf_group, v_ci_group |-> l.v_ci_group]

Return ==
    /\ es.driver = "sc"
    /\ pc = "ret"
    /\ ret' = Ret(return_value(lv))
    /\ gh' = SetStage(gh, "DONE")
    /\ pc' = "done"
    /\ UNCHANGED <<args, cfg, es, lv>>

NextSc ==
    \/ InitEmbsys
    \/ VfitCiMethod
    \/ UpdateEmbsVfitCi
    \/ AssembleFragEnergy
    \/ LoopHead
    \/ VfitMfMethod
    \/ UpdateEmbsys
    \/ CheckConv
    \/ Return

(***************************************************************************)
(* The driver EmbSys.scdmet of dmet_global_new,                            *)
(* src/dmet_global_new.py:349-400.  basidx_group is a list of flat index   *)
(* lists; with the translational flag one embedding stands for all.       *)
(*   g_build   353      vfit_mf = embsys.build_(mol)[0]                     *)
(*   g_fit_ci0 354-356  vfit_ci = vfit_ci_method(...); embsys.vfit_ci = .. *)
(*   g_asm0    359-364  assemble_frag_energy; the *_old values             *)
(*   g_loop    366      for icyc in range(embsys.max_iter)                 *)
(*   g_fit_mf  369      vfit_mf = embsys.vfit_mf_method(mol, embsys)       *)
(*   g_update  370      embsys.update_embsys(mol, vfit_mf, vfit_ci)        *)
(*   g_fit_ci  372-373  vfit_ci = vfit_ci_method(...); embsys.vfit_ci = .. *)
(*   g_asm     377      assemble_frag_energy                               *)
(*   g_check   379-398  dv, the *_old values, de, decorr, break            *)
(*   g_ret     400      return e_tot, vfit_mf, vfit_ci                      *)
(***************************************************************************)
GnDvThreshold == 10        \* `if dv < 1e-5`, src/dmet_global_new.py:397

GnGroups ==
    {[nao |-> 2, basidx_group |-> <<(<<0, 1>>)>>],
     [nao |-> 4, basidx_group |-> <<(<<0, 1>>), (<<2, 3>>)>>]}

GPcAfter(p) ==
    CASE p = "g_build"   -> "g_fit_ci0"
      [] p = "g_fit_ci0" -> "g_asm0"
      [] p = "g_asm0"    -> "g_loop"
      [] p = "g_fit_mf"  -> "g_update"
      [] p = "g_update"  -> "g_fit_ci"
      [] p = "g_fit_ci"  -> "g_asm"
      [] p = "g_asm"     -> "g_check"

InitGn ==
    /\ cfg \in DriverCfgs
    /\ \E g \in GnGroups, t \in BOOLEAN :
          /\ (~t /\ Len(g.basidx_group) > 1) => cfg.max_iter < MaxIter
          /\ es = [driver |-> "gn", basidx_group |-> g.basidx_group,
                   nao |-> g.nao, translational |-> t, entire_scf |-> 0,
                   embs |-> <<>>, vfit_mf |-> <<>>, vfit_ci |-> <<>>]
    /\ lv = InitLv
    /\ gh = InitGh
    /\ pc = "g_build"
    /\ args = Idle
    /\ ret = NoRet

(***************************************************************************)
(* EmbSys.build_, src/dmet_global_new.py:48-71: one embedding and one zero *)
(* vfit_mf / vfit_ci per entry of basidx_group, only the first entry with  *)
(* the translational flag; update_embs builds them on entire_scf.          *)
(***************************************************************************)
gn_n_embs(basidx_group, translational) ==
    IF translational /\ Len(basidx_group) > 0 THEN 1 ELSE Len(basidx_group)

GBuild ==
    /\ es.driver = "gn"
    /\ pc = "g_build"
    /\ LET n == gn_n_embs(es.basidx_group, es.translational)
       IN  /\ es' = [es EXCEPT
                  !.embs = [m \in 1 .. n |->
                               [bas_on_frag |-> es.basidx_group[m],
                                built_on |-> es.entire_scf]],
                  !.vfit_mf = [m \in 1 .. n |-> ZeroPot],
                  !.vfit_ci = [m \in 1 .. n |-> 0]]
           /\ lv' = [lv EXCEPT !.v_mf_group = [m \in 1 .. n |-> ZeroPot]]
           /\ gh' = [SetStage(gh, "INIT") EXCEPT
                  !.mf_fit = [m \in 1 .. n |-> ZeroPot]]
    /\ pc' = GPcAfter(pc)
    /\ UNCHANGED <<args, ret, cfg>>

(***************************************************************************)
(* vfit_ci_method = gen_all_vfit_by(fit_chemical_potential),               *)
(* src/dmet_global_new.py:443-478, and `embsys.vfit_ci = vfit_ci`: per     *)
(* embedding the scalar sol.x[0] of the root search.                       *)
(***************************************************************************)
GVfitCiMethod ==
    /\ es.driver = "gn"
    /\ pc \in {"g_fit_ci0", "g_fit_ci"}
    /\ \E x \in [1 .. NEmb -> CiVals] :
          /\ lv' = [lv EXCEPT !.v_ci_group = x]
          /\ es' = [es EXCEPT !.vfit_ci = x]
          /\ gh' = [SetStage(gh, "FIT_CORR") EXCEPT
                        !.ci_fit = x,
                        !.ci_on = [m \in 1 .. NEmb |-> es.embs[m].built_on],
                        !.ci_upd = gh.n_update,
                        !.ci_mf = es.vfit_mf]
    /\ pc' = GPcAfter(pc)
    /\ UNCHANGED <<args, ret, cfg>>

(***************************************************************************)
(* EmbSys.assemble_frag_energy of dmet_global_new,                         *)
(* src/dmet_global_new.py:145-168: the sum over the embeddings, times      *)
(* nao//nimp with the translational flag; e_corr is 0.                     *)
(***************************************************************************)
gn_copies(nao, nimp, basidx_group) == nao \div nimp

gn_assemble_frag_energy(embs, sol, translational, nao, basidx_group) ==
    LET e_tot == SumSeq([m \in 1 .. Len(embs) |-> sol[m].e_frag])
        nelec == SumSeq([m \in 1 .. Len(embs) |-> sol[m].nelec_frag])
        nimp  == Len(embs[1].bas_on_frag)
    IN  IF translational
        THEN [e_tot |-> e_tot * gn_copies(nao, nimp, basidx_group), e_corr |-> 0,
              nelec |-> nelec * gn_copies(nao, nimp, basidx_group)]
        ELSE [e_tot |-> e_tot, e_corr |-> 0, nelec |-> nelec]

\* embsys.unpack(vfit_mf) as the potential of every listed fragment
gn_unpacked(basidx_group, translational, v_group) ==
    [k \in 1 .. Len(basidx_group) |-> IF translational THEN v_group[1] ELSE v_group[k]]

GAssembleFragEnergy ==
    /\ es.driver = "gn"
    /\ pc \in {"g_asm0", "g_asm"}
    /\ \E sol \in [1 .. NEmb -> [e_frag : EVals, nelec_frag : NVals]] :
          LET r == gn_assemble_frag_energy(es.embs, sol, es.translational,
                                           es.nao, es.basidx_group)
          IN  /\ lv' = IF pc = "g_asm0"
                       THEN [lv EXCEPT !.e_tot = r.e_tot, !.e_corr = r.e_corr,
                                !.nelec = r.nelec,
                                !.v_group_old =
                                    <<gn_unpacked(es.basidx_group, es.translational,
                                                  lv.v_mf_group), lv.v_ci_group>>,
                                !.e_tot_old = r.e_tot, !.e_corr_old = r.e_corr]
                       ELSE [lv EXCEPT !.e_tot = r.e_tot, !.e_corr = r.e_corr,
                                !.nelec = r.nelec]
              /\ gh' = [SetStage(gh, "ASSEMBLE_ENERGY") EXCEPT
                    !.asm = [done |-> TRUE, it |-> gh.it,
                             scf |-> es.entire_scf,
                             built_on |-> [m \in 1 .. NEmb |-> es.embs[m].built_on],
                             ci_on |-> gh.ci_on,
                             ci_used |-> es.vfit_ci,
                             ci_fit |-> gh.ci_fit,
                             n_update |-> gh.n_update, ci_upd |-> gh.ci_upd,
                             mf_now |-> es.vfit_mf,
                             ci_mf |-> gh.ci_mf],
                    !.e_prev = lv.e_tot,
                    !.last = [done |-> TRUE, it |-> gh.it, e_tot |-> r.e_tot,
                              v_mf_group |-> gh.mf_fit, v_ci_group |-> gh.ci_fit]]
    /\ pc' = GPcAfter(pc)
    /\ UNCHANGED <<args, ret, cfg, es>>

GLoopHead ==
    /\ es.driver = "gn"
    /\ pc = "g_loop"
    /\ IF loop_continues(lv.icyc, cfg.max_iter)
       THEN pc' = "g_fit_mf"
       ELSE pc' = "g_ret"
    /\ UNCHANGED <<args, ret, cfg, es, lv, gh>>

(***************************************************************************)
(* EmbSys.vfit_mf_method, src/dmet_global_new.py:402-429: embsys.vfit_mf   *)
(* plus the solution of fit_solver, per embedding.                         *)
(***************************************************************************)
GVfitMfMethod ==
    /\ es.driver = "gn"
    /\ pc = "g_fit_mf"
    /\ \E dv \in [1 .. NEmb -> MfDeltas] :
          /\ lv' = [lv EXCEPT !.v_mf_group =
                        [m \in 1 .. NEmb |-> PotAdd(es.vfit_mf[m], dv[m])]]
          /\ gh' = [SetStage(gh, "FIT_MF") EXCEPT
                        !.it = lv.icyc + 1, !.mf_it = lv.icyc + 1, !.n_fit_mf = @ + 1,
                        !.mf_fit = [m \in 1 .. NEmb |-> PotAdd(es.vfit_mf[m], dv[m])]]
    /\ pc' = GPcAfter(pc)
    /\ UNCHANGED <<args, ret, cfg, es>>

(***************************************************************************)
(* EmbSys.update_embsys, src/dmet_global_new.py:133-143: the mean-field    *)
(* solver is run with the assembled potential, the embeddings are rebuilt, *)
(* and the two potential lists handed in are stored.                       *)
(***************************************************************************)
GUpdateEmbsys ==
    /\ es.driver = "gn"
    /\ pc = "g_update"
    /\ es' = [es EXCEPT
                 !.entire_scf = @ + 1,
                 !.embs = [m \in 1 .. NEmb |->
                              [es.embs[m] EXCEPT !.built_on = es.entire_scf + 1]],
                 !.vfit_mf = lv.v_mf_group,
                 !.vfit_ci = lv.v_ci_group]
    /\ gh' = [SetStage(gh, "RESOLVE_GLOBAL") EXCEPT
                    !.rg_it = gh.it, !.n_update = @ + 1]
    /\ pc' = GPcAfter(pc)
    /\ UNCHANGED <<args, ret, cfg, lv>>

(***************************************************************************)
(* src/dmet_global_new.py:379-398: dv is the norm of                       *)
(* unpack(vfit_mf) - vfit_mf_old with its diagonal zeroed (each            *)
(* off-diagonal entry of each listed fragment counts twice); the *_old     *)
(* values are replaced before de and decorr are formed; the loop ends      *)
(* when dv < 1e-5.                                                         *)
(***************************************************************************)
gn_dv(basidx_group, unpacked, unpacked_old) ==
    ISqrt(SumSeq([k \in 1 .. Len(basidx_group) |->
              2 * NTril(Len(basidx_group[k]))
              * (unpacked[k].o - unpacked_old[k].o)
              * (unpacked[k].o - unpacked_old[k].o)]))

GCheckConv ==
    /\ es.driver = "gn"
    /\ pc = "g_check"
    /\ LET unp  == gn_unpacked(es.basidx_group, es.translational, lv.v_mf_group)
           dv   == gn_dv(es.basidx_group, unp, lv.v_group_old[1])
           conv == dv < GnDvThreshold
       IN  /\ lv' = [lv EXCEPT !.dv = dv,
                               !.v_group_old = <<unp, lv.v_ci_group>>,
                               !.e_tot_old = lv.e_tot,
                               !.e_corr_old = lv.e_corr,
                               !.de = rel_change(lv.e_tot, lv.e_tot),
                               !.decorr = abs_change(lv.e_corr, lv.e_corr),
                               !.icyc = IF conv THEN @ ELSE @ + 1]
           /\ gh' = [SetStage(gh, "CHECK_CONV") EXCEPT
                        !.n_check = @ + 1,
                        !.conv_seen = conv]
           /\ pc' = IF conv THEN "g_ret" ELSE "g_loop"
    /\ UNCHANGED <<args, ret, cfg, es>>

GReturn ==
    /\ es.driver = "gn"
    /\ pc = "g_ret"
    /\ ret' = Ret(return_value(lv))
    /\ gh' = SetStage(gh, "DONE")
    /\ pc' = "done"
    /\ UNCHANGED <<args, cfg, es, lv>>

NextGn ==
    \/ GBuild
    \/ GVfitCiMethod
    \/ GAssembleFragEnergy
    \/ GLoopHead
    \/ GVfitMfMethod
    \/ GUpdateEmbsys
    \/ GCheckConv
    \/ GReturn

(***************************************************************************)
(* Spec: a run of either driver.                                           *)
(***************************************************************************)
Init == InitSc \/ InitGn
Next == NextSc \/ NextGn
Spec == Init /\ [][Next]_vars

(***************************************************************************)
(* SpecConv: _check_conv applied to every configuration and input.         *)
(***************************************************************************)
ThrVals == -1 .. MaxThr
CtVals  == {0, 1} \cup {10 * k : k \in 1 .. MaxThr}
InVals  == 0 .. MaxIn

ConvCfgs ==
    [max_iter : {DefaultMaxIter},
     conv_threshold : CtVals,
     conv_threshold_etot : ThrVals,
     conv_threshold_corr : ThrVals,
     conv_threshold_vfit : ThrVals]

DriverIdle ==
    /\ pc = "idle"
    /\ es = Idle
    /\ lv = Idle
    /\ gh = Idle

InitConv ==
    /\ cfg \in ConvCfgs
    /\ args \in [fn : {"_check_conv"}, dv : InVals, de : InVals, decorr : InVals]
    /\ ret = NoRet
    /\ DriverIdle

CallCheckConv ==
    /\ args.fn = "_check_conv"
    /\ ~ret.done
    /\ ret' = Ret(check_conv(cfg, args.dv, args.de, args.decorr))
    /\ UNCHANGED <<args, cfg, pc, es, lv, gh>>

NextConv == CallCheckConv

SpecConv == InitConv /\ [][NextConv]_vars

(***************************************************************************)
(* Matrices of dmet_global_new.  A global matrix is a function on the      *)
(* pairs of basis indices 0..nao-1, a fragment matrix a function on the    *)
(* pairs of positions 1..nimp in the fragment's index list.                *)
(***************************************************************************)
MaxVal == 1                \* matrix entries and fit parameters range over 0..MaxVal

Idx(nao) == (0 .. nao - 1) \X (0 .. nao - 1)
Pos(nimp) == (1 .. nimp) \X (1 .. nimp)
Zeros(nao) == [ij \in Idx(nao) |-> 0]

\* v[bidx[:,None],bidx]
Block(v, bidx) == [ab \in Pos(Len(bidx)) |-> v[<<bidx[ab[1]], bidx[ab[2]]>>]]

\* blk[:nimp,:nimp]
Slice(blk, nimp) == [ab \in Pos(nimp) |-> blk[ab]]

PosOf(bidx, i) == CHOOSE a \in 1 .. Len(bidx) : bidx[a] = i
InFrag(bidx, i) == \E a \in 1 .. Len(bidx) : bidx[a] = i

\* v[bidx[:,None],bidx] = blk
SetBlock(v, bidx, blk) ==
    [ij \in DOMAIN v |->
        IF InFrag(bidx, ij[1]) /\ InFrag(bidx, ij[2])
        THEN blk[<<PosOf(bidx, ij[1]), PosOf(bidx, ij[2])>>]
        ELSE v[ij]]

(***************************************************************************)
(* EmbSys.assemble_to_blockmat, src/dmet_global_new.py:203-217, which is   *)
(* EmbSys.unpack (201-202): with the translational flag every fragment of  *)
(* basidx_group receives v_group[0], without it fragment m receives        *)
(* v_group[m].                                                             *)
(***************************************************************************)
RECURSIVE blockmat_loop_first(_, _, _, _, _)
blockmat_loop_first(k, v_add, basidx_group, v_group, translational) ==
    IF k > Len(basidx_group) THEN v_add
    ELSE blockmat_loop_first(k + 1,
             SetBlock(v_add, basidx_group[k],
                      Slice(v_group[1], Len(basidx_group[1]))),
             basidx_group, v_group, translational)

RECURSIVE blockmat_loop(_, _, _, _, _)
blockmat_loop(k, v_add, basidx_group, v_group, translational) ==
    IF k > Len(basidx_group) THEN v_add
    ELSE LET basidx == basidx_group[k]
             blk == IF translational
                    THEN Slice(v_group[1], Len(basidx_group[1]))
                    ELSE Slice(v_group[k], Len(basidx))
         IN  blockmat_loop(k + 1, SetBlock(v_add, basidx, blk),
                           basidx_group, v_group, translational)

assemble_to_blockmat(embsys, v_group) ==
    blockmat_loop(1, Zeros(embsys.nao), embsys.basidx_group, v_group,
                  embsys.translational)

unpack(embsys, v_group) == assemble_to_blockmat(embsys, v_group)

\* EmbSys.pack, src/dmet_global_new.py:219-224
pack(embsys, v) ==
    [i \in 1 .. Len(embsys.basidx_group) |-> Block(v, embsys.basidx_group[i])]

(***************************************************************************)
(* fit_solver._decompress, src/dmet_global_new.py:241-257: the parameters  *)
(* of embedding m fill the lower triangle of v1 in the order of            *)
(* numpy.tril_indices and its mirror image; with the translational flag    *)
(* the block of the first fragment is then unpacked onto every fragment.   *)
(***************************************************************************)
NTriu(nimp) == (nimp * (nimp + 1)) \div 2

TrilPos(a, b) == IF a >= b THEN ((a - 1) * a) \div 2 + b
                 ELSE ((b - 1) * b) \div 2 + a

RECURSIVE decompress_loop(_, _, _, _, _)
decompress_loop(m, p0, v, embs, vfit) ==
    IF m > Len(embs) THEN v
    ELSE LET bidx == embs[m].bas_on_frag
             nimp == Len(bidx)
             p1 == p0 + NTriu(nimp)
             v1 == [ab \in Pos(nimp) |-> vfit[p0 + TrilPos(ab[1], ab[2])]]
         IN  decompress_loop(m + 1, p1, SetBlock(v, bidx, v1), embs, vfit)

decompress_no_unpack(embsys, vfit) ==
    decompress_loop(1, 0, Zeros(embsys.nao), embsys.embs, vfit)

decompress(embsys, vfit) ==
    LET v == decompress_loop(1, 0, Zeros(embsys.nao), embsys.embs, vfit)
    IN  IF embsys.translational
        THEN unpack(embsys, <<Block(v, embsys.basidx_group[1])>>)
        ELSE v

(***************************************************************************)
(* `sol -= numpy.eye(nao)*sol.diagonal().mean()`,                          *)
(* src/dmet_global_new.py:341.  The mean is a fraction with denominator    *)
(* nao: the result is kept as nao * sol.                                   *)
(***************************************************************************)
DiagSum(v, nao) == SumSeq([i \in 1 .. nao |-> v[<<i - 1, i - 1>>]])

\* nao * sol without the subtraction of the mean
recentre_no_shift(v, nao) == [ij \in Idx(nao) |-> nao * v[ij]]

recentre_times_nao(v, nao) ==
    [ij \in Idx(nao) |->
        nao * v[ij] - (IF ij[1] = ij[2] THEN DiagSum(v, nao) ELSE 0)]

(***************************************************************************)
(* The pack / unpack round trip and fit_solver's construction of vfit_mf   *)
(* from a parameter vector.                                                *)
(***************************************************************************)
AsmLayouts ==
    {[nao |-> 2, basidx_group |-> <<(<<0>>), (<<1>>)>>],
     [nao |-> 3, basidx_group |-> <<(<<0, 1>>), (<<2>>)>>],
     [nao |-> 4, basidx_group |-> <<(<<0, 1>>), (<<2, 3>>)>>],
     [nao |-> 4, basidx_group |-> <<(<<0, 2>>), (<<3, 1>>)>>],
     [nao |-> 5, basidx_group |-> <<(<<0, 1>>), (<<2, 3>>)>>]}

EqualSize(basidx_group) ==
    \A k \in 1 .. Len(basidx_group) : Len(basidx_group[k]) = Len(basidx_group[1])

SymMats(nimp) == {f \in [Pos(nimp) -> 0 .. MaxVal] :
                     \A ab \in Pos(nimp) : f[ab] = f[<<ab[2], ab[1]>>]}

VGroups(basidx_group) ==
    {g \in [1 .. Len(basidx_group) -> UNION {SymMats(n) : n \in 1 .. 2}] :
        \A k \in 1 .. Len(basidx_group) :
            DOMAIN g[k] = Pos(Len(basidx_group[k]))}

NParams(embs) == SumSeq([m \in 1 .. Len(embs) |-> NTriu(Len(embs[m].bas_on_frag))])

AsmIdle ==
    /\ cfg = Idle
    /\ gh = Idle
    /\ ret = NoRet

\* the embeddings as EmbSys.build_ makes them, src/dmet_global_new.py:48-71
InitAsmEs(l, t) ==
    [driver |-> "asm", nao |-> l.nao, basidx_group |-> l.basidx_group,
     translational |-> t,
     embs |-> [m \in 1 .. gn_n_embs(l.basidx_group, t) |->
                  [bas_on_frag |-> l.basidx_group[m]]]]

InitAsm ==
    \E l \in AsmLayouts, t \in BOOLEAN :
        /\ t => EqualSize(l.basidx_group)
        /\ es = InitAsmEs(l, t)
        /\ \/ /\ pc = "a_unpack"
              /\ \E g \in VGroups(l.basidx_group) :
                     args = [fn |-> "unpack", v_group |-> g]
           \/ /\ pc = "d_decompress"
              /\ \E x \in [1 .. NParams(es.embs) -> 0 .. MaxVal] :
                     args = [fn |-> "fit_solver", vfit |-> x]
        /\ lv = [at |-> "none"]
        /\ AsmIdle

Unpack ==
    /\ pc = "a_unpack"
    /\ lv' = [at |-> "v", v |-> unpack(es, args.v_group)]
    /\ pc' = "a_pack"
    /\ UNCHANGED <<args, ret, cfg, es, gh>>

Pack ==
    /\ pc = "a_pack"
    /\ ret' = Ret(pack(es, lv.v))
    /\ pc' = "done"
    /\ UNCHANGED <<args, cfg, es, lv, gh>>

Decompress ==
    /\ pc = "d_decompress"
    /\ lv' = [at |-> "v", v |-> decompress(es, args.vfit)]
    /\ pc' = "d_recentre"
    /\ UNCHANGED <<args, ret, cfg, es, gh>>

Recentre ==
    /\ pc = "d_recentre"
    /\ lv' = [at |-> "sol", v |-> lv.v, sol |-> recentre_times_nao(lv.v, es.nao)]
    /\ pc' = "d_vfit_mf"
    /\ UNCHANGED <<args, ret, cfg, es, gh>>

\* src/dmet_global_new.py:342-346
CollectVfitMf ==
    /\ pc = "d_vfit_mf"
    /\ ret' = Ret([m \in 1 .. Len(es.embs) |-> Block(lv.sol, es.embs[m].bas_on_frag)])
    /\ pc' = "done"
    /\ UNCHANGED <<args, cfg, es, lv, gh>>

NextAsm == Unpack \/ Pack \/ Decompress \/ Recentre \/ CollectVfitMf

SpecAsm == InitAsm /\ [][NextAsm]_vars

(***************************************************************************)
(* EmbSys.extract_frag_energy, src/dmet_sc.py:422-455 and                  *)
(* src/dmet_global_new.py:170-198.  The matrices are on the impurity       *)
(* basis, the nimp fragment orbitals first and the bath orbitals after     *)
(* them.  The entries of _vhf_env are even, which keeps `* .5` exact.      *)
(***************************************************************************)
\* numpy.dot(a[:r,c0:c1+1].flatten(), b[:r,c0:c1+1].flatten()), 1-based
DotRange(a, b, r, c0, c1) ==
    SumSeq([i \in 1 .. r |->
               SumSeq([j \in 1 .. (c1 - c0 + 1) |->
                          a[<<i, c0 + j - 1>>] * b[<<i, c0 + j - 1>>]])])

\* a[:nimp].trace()
TraceRows(a, nimp) == SumSeq([i \in 1 .. nimp |-> a[<<i, i>>]])

extract_frag_energy(solver_is_mp2, emb, dm1_in, e2frag) ==
    LET nimp == Len(emb.bas_on_frag)
        n    == nimp + emb.nbath
        h1e  == emb.h1e
        nelec_frag == TraceRows(dm1_in, nimp)
        dm1  == IF solver_is_mp2 THEN emb.hf_dm1 ELSE dm1_in
        e1_frag == DotRange(dm1, h1e, nimp, 1, nimp)
        e1_bath == DotRange(dm1, h1e, nimp, nimp + 1, n)
        e1_vfit == 0
        e1   == e1_frag + e1_bath + e1_vfit
        e2env_hf == DotRange(dm1, emb.vhf_env, nimp, 1, n) \div 2
    IN  [e_frag |-> e1 + e2env_hf + e2frag, nelec_frag |-> nelec_frag]

gn_extract_frag_energy(emb, dm1, e2frag) ==
    LET nimp == Len(emb.bas_on_frag)
        n    == nimp + emb.nbath
        h1e  == emb.h1e
        e1_frag == DotRange(dm1, h1e, nimp, 1, nimp)
        e1_bath == DotRange(dm1, h1e, nimp, nimp + 1, n)
        e1_vfit == 0
        e1   == e1_frag + e1_bath + e1_vfit
        e2env_hf == DotRange(dm1, emb.vhf_env, nimp, 1, n) \div 2
        nelec_frag == TraceRows(dm1, nimp)
    IN  [e_frag |-> e1 + e2env_hf + e2frag, nelec_frag |-> nelec_frag]

(***************************************************************************)
(* The energy assembly of the two classes on embeddings with matrices.     *)
(* The solver returns a density matrix with p on the diagonal and q off    *)
(* it, and the fragment's two-electron energy.                             *)
(***************************************************************************)
NBath == 1                 \* bath orbitals of an embedding

DmOf(p, q, n) == [ab \in Pos(n) |-> IF ab[1] = ab[2] THEN p ELSE q]

SolverOuts == [p : 0 .. MaxVal, q : 0 .. MaxVal, e2frag : 0 .. MaxVal]

EmbOf(m, bas_idx, ehf) ==
    LET n == Len(bas_idx) + NBath
    IN  [bas_on_frag |-> bas_idx, nbath |-> NBath, ehfinhf |-> ehf,
         h1e |-> [ab \in Pos(n) |-> m + ab[1] * ab[2]],
         vhf_env |-> [ab \in Pos(n) |-> 2 * (ab[1] + ab[2] + m)],
         hf_dm1 |-> DmOf(1, 0, n)]

EnScGroups ==
    {<<Flat(<<0>>)>>,
     <<Flat(<<0, 1>>)>>,
     <<Copies(<<(<<0, 1>>), (<<2, 3>>)>>)>>,
     <<Flat(<<0, 1>>), Flat(<<2>>)>>,
     <<Copies(<<(<<0>>), (<<1>>), (<<2>>)>>), Flat(<<3, 4>>)>>,
     <<Flat(<<0>>), Copies(<<(<<1>>), (<<2>>)>>)>>}

EnGnGroups ==
    {[nao |-> 2, basidx_group |-> <<(<<0, 1>>)>>],
     [nao |-> 4, basidx_group |-> <<(<<0, 1>>)>>],
     [nao |-> 2, basidx_group |-> <<(<<0>>), (<<1>>)>>],
     [nao |-> 4, basidx_group |-> <<(<<0, 1>>), (<<2, 3>>)>>],
     [nao |-> 5, basidx_group |-> <<(<<0, 1>>), (<<2, 3>>)>>],
     [nao |-> 6, basidx_group |-> <<(<<0, 1>>), (<<2, 3>>)>>]}

EhfChoices == {1, 2}

InitEnergySc ==
    \E g \in EnScGroups, mp2 \in BOOLEAN :
        LET fl == gen_frag_looper(g)
        IN  \E ehf \in [1 .. Len(g) -> EhfChoices] :
               es = [driver |-> "esc", basidx_group |-> g,
                     all_frags |-> fl.all_frags, uniq_frags |-> fl.uniq_frags,
                     solver_is_mp2 |-> mp2,
                     embs |-> [m \in 1 .. Len(g) |->
                                  EmbOf(m, fl.uniq_frags[m].bas_idx, ehf[m])]]

InitEnergyGn ==
    \E l \in EnGnGroups, t \in BOOLEAN :
        es = [driver |-> "egn", nao |-> l.nao, basidx_group |-> l.basidx_group,
              translational |-> t,
              embs |-> [m \in 1 .. gn_n_embs(l.basidx_group, t) |->
                           EmbOf(m, l.basidx_group[m], 0)]]

InitEnergy ==
    /\ InitEnergySc \/ InitEnergyGn
    /\ pc = "e_asm"
    /\ args = [fn |-> "assemble_frag_energy"]
    /\ lv = [at |-> "none"]
    /\ AsmIdle

DmOut(o, emb) == DmOf(o.p, o.q, Len(emb.bas_on_frag) + emb.nbath)

\* src/dmet_sc.py:396-420 with the solver's returns outs
EAssembleSc ==
    /\ pc = "e_asm"
    /\ es.driver = "esc"
    /\ \E outs \in [1 .. NEmb -> SolverOuts] :
          LET sol == [m \in 1 .. NEmb |->
                         extract_frag_energy(es.solver_is_mp2, es.embs[m],
                                             DmOut(outs[m], es.embs[m]),
                                             outs[m].e2frag)]
          IN  /\ lv' = [at |-> "asm", outs |-> outs]
              /\ ret' = Ret(assemble_frag_energy(es.all_frags, es.embs, sol))
    /\ pc' = "done"
    /\ UNCHANGED <<args, cfg, es, gh>>

\* src/dmet_global_new.py:145-168 with the solver's returns outs
EAssembleGn ==
    /\ pc = "e_asm"
    /\ es.driver = "egn"
    /\ \E outs \in [1 .. NEmb -> SolverOuts] :
          LET sol == [m \in 1 .. NEmb |->
                         gn_extract_frag_energy(es.embs[m],
                                                DmOut(outs[m], es.embs[m]),
                                                outs[m].e2frag)]
          IN  /\ lv' = [at |-> "asm", outs |-> outs]
              /\ ret' = Ret(gn_assemble_frag_energy(es.embs, sol, es.translational,
                                                    es.nao, es.basidx_group))
    /\ pc' = "done"
    /\ UNCHANGED <<args, cfg, es, gh>>

NextEnergy == EAssembleSc \/ EAssembleGn

SpecEnergy == InitEnergy /\ [][NextEnergy]_vars

(***************************************************************************)
(* FIT_CORR: fit_chemical_potential, src/dmet_sc.py:630-664 and            *)
(* src/dmet_global_new.py:458-478, its storing (update_embs_vfit_ci,       *)
(* src/dmet_sc.py:276-283; `embsys.vfit_ci = vfit_ci`,                     *)
(* src/dmet_global_new.py:355) and the solver call of                      *)
(* assemble_frag_energy on the stored potential.  The root search          *)
(* (scipy.optimize.newton, scipy.optimize.root) is a library: it calls     *)
(* nelec_diff on trial values of its choice, the first one its start       *)
(* value, and stops at a trial whose residual is within tolerance (zero    *)
(* on the grid) or when its budget is used up.                             *)
(***************************************************************************)
MaxTrials == 2             \* calls of nelec_diff a root search may make
MaxRounds == 2             \* FIT_CORR stages in a row

\* vmat = emb.vfit_ci.copy(); vmat[:nimp,:nimp] = numpy.eye(nimp) * v
trial_vmat_add(vfit_ci, nimp, v) ==
    \* v added to the impurity diagonal
    [ab \in DOMAIN vfit_ci |->
        IF ab[1] = ab[2] /\ ab[1] <= nimp THEN vfit_ci[ab] + v ELSE vfit_ci[ab]]

trial_vmat(vfit_ci, nimp, v) ==
    [ab \in DOMAIN vfit_ci |->
        IF ab[1] <= nimp /\ ab[2] <= nimp
        THEN (IF ab[1] = ab[2] THEN v ELSE 0)
        ELSE vfit_ci[ab]]

final_vmat_add(vfit_ci, nimp, v1) ==
    \* v1 added to the impurity diagonal
    [ab \in DOMAIN vfit_ci |->
        IF ab[1] = ab[2] /\ ab[1] <= nimp THEN vfit_ci[ab] + v1 ELSE vfit_ci[ab]]

\* vmat = emb.vfit_ci.copy(); for i in range(nimp): vmat[i,i] = v1
final_vmat(vfit_ci, nimp, v1) ==
    [ab \in DOMAIN vfit_ci |->
        IF ab[1] = ab[2] /\ ab[1] <= nimp THEN v1 ELSE vfit_ci[ab]]

\* dv = numpy.eye(nimp) * v
gn_trial_vmat(nimp, v) == [ab \in Pos(nimp) |-> IF ab[1] = ab[2] THEN v ELSE 0]

(***************************************************************************)
(* The correlated solver as the root search sees it: dm[:nimp].trace() of  *)
(* solver.run(emb, emb._eri, vmat, True, False)[2] falls with the          *)
(* potential on the impurity, with its diagonal alone or with the whole    *)
(* impurity block.                                                         *)
(***************************************************************************)
SolverBase == 6            \* dm[:nimp].trace() at zero potential

ImpSum(vmat, nimp, resp) ==
    SumSeq([a \in 1 .. nimp |->
               SumSeq([b \in 1 .. nimp |->
                          IF a = b \/ resp = "block" THEN vmat[<<a, b>>] ELSE 0])])

solver_trace(vmat, nimp, resp) == SolverBase - ImpSum(vmat, nimp, resp)

nelec_diff(nelec_frag, vmat, nimp, resp) ==
    nelec_frag - solver_trace(vmat, nimp, resp)

ChemEmbs ==
    {[nimp |-> ni, nbath |-> NBath, nelec_frag |-> SolverBase - t]
        : ni \in 1 .. 2, t \in 0 .. 2}

InitChem ==
    /\ \E e \in ChemEmbs, d \in {"csc", "cgn"}, r \in {"diag", "block"},
          ep \in BOOLEAN :
          /\ d = "cgn" => ~ep
          /\ es = [driver |-> d, nimp |-> e.nimp, nelec_frag |-> e.nelec_frag,
                   resp |-> r, env_pot_for_ci |-> ep,
                   \* src/dmet_sc.py:178, src/dmet_global_new.py:61
                   vfit_ci |-> IF d = "csc"
                               THEN [ab \in Pos(e.nimp + e.nbath) |-> 0]
                               ELSE 0]
    /\ pc = "c_find"
    /\ args = [fn |-> "fit_chemical_potential"]
    /\ lv = [round |-> 1, ntrial |-> 0, v |-> 0, handed |-> <<>>, resid |-> 0,
             conv |-> FALSE, old |-> <<>>, asm_handed |-> <<>>, asm_trace |-> 0]
    /\ AsmIdle

\* one call of nelec_diff by the root search
ChemTrial ==
    /\ pc = "c_find"
    /\ lv.ntrial < MaxTrials
    /\ lv.ntrial = 0 \/ lv.resid # 0
    /\ \E v \in IF lv.ntrial > 0 THEN 0 .. MaxVal + 1
                ELSE IF es.driver = "csc" THEN {es.vfit_ci[<<1, 1>>]} ELSE {0} :
          LET vmat == IF es.driver = "csc"
                      THEN trial_vmat(es.vfit_ci, es.nimp, v)
                      ELSE gn_trial_vmat(es.nimp, v)
          IN  lv' = [lv EXCEPT !.ntrial = @ + 1, !.v = v, !.handed = vmat,
                        !.resid = nelec_diff(es.nelec_frag, vmat, es.nimp, es.resp)]
    /\ UNCHANGED <<args, ret, cfg, pc, es, gh>>

\* what the stage returns; the return statements carry no diagnostic
ChemRet(v, d) == [done |-> TRUE, raised |-> FALSE, val |-> v, diagnostic |-> d]

\* the root search ends within tolerance
ChemAccept ==
    /\ pc = "c_find"
    /\ lv.ntrial > 0
    /\ lv.resid = 0
    /\ ret' = IF es.driver = "csc"
              THEN ChemRet(final_vmat(es.vfit_ci, es.nimp, lv.v), "none")
              ELSE ChemRet(lv.v, "none")
    /\ lv' = [lv EXCEPT !.conv = TRUE, !.old = es.vfit_ci]
    /\ pc' = "c_store"
    /\ UNCHANGED <<args, cfg, es, gh>>

(***************************************************************************)
(* The budget is used up.  scipy.optimize.newton raises RuntimeError,      *)
(* which fit_chemical_potential of dmet_sc does not catch;                 *)
(* scipy.optimize.root returns sol with sol.success false and              *)
(* dmet_global_new returns sol.x[0].                                       *)
(***************************************************************************)
ChemFail ==
    /\ pc = "c_find"
    /\ lv.ntrial = MaxTrials
    /\ lv.resid # 0
    /\ IF es.driver = "csc"
       THEN /\ ret' = [done |-> TRUE, raised |-> TRUE]
            /\ pc' = "raised"
       ELSE /\ ret' = ChemRet(lv.v, "none")
            /\ pc' = "c_store"
    /\ lv' = [lv EXCEPT !.conv = FALSE, !.old = es.vfit_ci]
    /\ UNCHANGED <<args, cfg, es, gh>>

\* update_embs_vfit_ci / embsys.vfit_ci = vfit_ci
ChemStore ==
    /\ pc = "c_store"
    /\ es' = [es EXCEPT !.vfit_ci = ret.val]
    /\ pc' = "c_asm"
    /\ UNCHANGED <<args, ret, cfg, lv, gh>>

\* the solver call of assemble_frag_energy
ChemAssemble ==
    /\ pc = "c_asm"
    /\ LET vmat == IF es.driver = "csc" THEN es.vfit_ci
                   ELSE gn_trial_vmat(es.nimp, es.vfit_ci)
       IN  lv' = [lv EXCEPT !.asm_handed = vmat,
                     !.asm_trace = solver_trace(vmat, es.nimp, es.resp)]
    /\ pc' = "c_next"
    /\ UNCHANGED <<args, ret, cfg, es, gh>>

(***************************************************************************)
(* The next iteration up to its FIT_CORR.  update_embs_vfit_mf,            *)
(* src/dmet_sc.py:306-317, with env_pot_for_ci = NO_IMP_BLK replaces       *)
(* vfit_ci by the mean-field potential on the embedding basis and keeps    *)
(* the impurity block of vfit_ci.                                          *)
(***************************************************************************)
ChemNextRound ==
    /\ pc = "c_next"
    /\ IF lv.round < MaxRounds
       THEN /\ pc' = "c_find"
            /\ lv' = [lv EXCEPT !.round = @ + 1, !.ntrial = 0, !.resid = 0,
                                !.conv = FALSE]
            /\ ret' = NoRet
            /\ \E vmf \in 0 .. MaxVal, e \in ChemEmbs :
                  /\ e.nimp = es.nimp
                  /\ es' = [es EXCEPT
                        \* update_embs: emb._project_nelec_frag of the new reference
                        !.nelec_frag = e.nelec_frag,
                        !.vfit_ci =
                            IF es.env_pot_for_ci
                            THEN [ab \in DOMAIN es.vfit_ci |->
                                     IF ab[1] <= es.nimp /\ ab[2] <= es.nimp
                                     THEN es.vfit_ci[ab] ELSE vmf]
                            ELSE es.vfit_ci]
       ELSE /\ pc' = "done"
            /\ UNCHANGED <<ret, es, lv>>
    /\ UNCHANGED <<args, cfg, gh>>

NextChem ==
    \/ ChemTrial \/ ChemAccept \/ ChemFail \/ ChemStore \/ ChemAssemble
    \/ ChemNextRound

SpecChem == InitChem /\ [][NextChem]_vars

(***************************************************************************)
(* RESOLVE_GLOBAL on the mean-field objects themselves.  es.heap holds the *)
(* SCF objects by identity, es.arrs the occupation arrays they point to;   *)
(* es.entire_scf is the object self.entire_scf names.  An object's         *)
(* get_hcore is looked up as Python does: the instance attribute when one  *)
(* is set, the method of the class otherwise.  scf.hf.kernel is the        *)
(* external solver: it answers any orbitals and either convergence flag.   *)
(***************************************************************************)
ClassHcore == [kind |-> "class", base |-> 0, h |-> 0, vext |-> 0]

\* dmet_sc: def _get_hcore(mol): h = entire_scf.get_hcore(mol); return h + vext_on_ao
ScHcore(old, vext) == [kind |-> "closure", base |-> old, h |-> 0, vext |-> vext]

\* dmet_global_new: h = eff_scf.get_hcore(); eff_scf.get_hcore = lambda *args: h + vext_on_ao
GnHcore(h, vext) == [kind |-> "lambda", base |-> 0, h |-> h, vext |-> vext]

RECURSIVE get_hcore(_, _, _)
get_hcore(heap, h0, id) ==
    LET a == heap[id].hc
    IN  IF a.kind = "class" THEN h0
        ELSE IF a.kind = "closure" THEN get_hcore(heap, h0, a.base) + a.vext
        ELSE a.h + a.vext

release_skipped(o) == o

\* del(eff_scf.get_hcore)
release(o) == [o EXCEPT !.hc = ClassHcore]

\* eff_scf = copy.copy(entire_scf); eff_scf.converged = False
dup_entire_scf(o) == [o EXCEPT !.converged = FALSE]

\* what a holder of the object reads from it
ObjView(heap, arrs, h0, id) ==
    [mo_coeff |-> heap[id].mo_coeff, mo_energy |-> heap[id].mo_energy,
     mo_occ |-> arrs[heap[id].mo_occ], scf_conv |-> heap[id].scf_conv,
     hcore |-> get_hcore(heap, h0, id)]

InitRef ==
    /\ \E d \in {"sc", "gn"}, fs \in BOOLEAN, h0 \in 0 .. MaxVal :
          /\ d = "gn" => ~fs
          /\ es = [driver |-> d, hf_follow_state |-> fs, h0 |-> h0,
                   entire_scf |-> 1, emb_entire_scf |-> 1,
                   heap |-> <<[mo_coeff |-> 0, mo_energy |-> 0, mo_occ |-> 1,
                               scf_conv |-> TRUE, converged |-> TRUE,
                               hc |-> ClassHcore]>>,
                   arrs |-> <<0>>]
          /\ lv = [icyc |-> 0, eff |-> 1, vext |-> 0, h_seen |-> h0,
                   h_embs |-> h0, emb_conv |-> TRUE]
          /\ gh = [old_id |-> 1, vext_before |-> 0,
                   old |-> [mo_coeff |-> 0, mo_energy |-> 0, mo_occ |-> 0,
                            scf_conv |-> TRUE, hcore |-> h0]]
    /\ pc = "r_start"
    /\ args = [fn |-> "update_embsys"]
    /\ cfg = Idle
    /\ ret = NoRet

\* run_hf_with_ext_pot_ up to the call of the kernel
RefDup ==
    /\ pc = "r_start"
    /\ lv.icyc < MaxIter
    /\ \E vext \in 0 .. MaxVal :
          LET old == es.entire_scf
              n   == Len(es.heap) + 1
              na  == Len(es.arrs) + 1
              cp  == dup_entire_scf(es.heap[old])
          IN  /\ gh' = [gh EXCEPT !.old_id = old,
                                  !.old = ObjView(es.heap, es.arrs, es.h0, old),
                                  !.vext_before = @ + lv.vext]
              /\ IF es.driver = "sc"
                 THEN /\ es' = [es EXCEPT
                            !.heap = Append(@,
                                IF es.hf_follow_state
                                \* eff_scf.mo_occ = numpy.zeros_like(...); [:nelectron/2] = 2
                                THEN [cp EXCEPT !.hc = ScHcore(old, vext), !.mo_occ = na]
                                ELSE [cp EXCEPT !.hc = ScHcore(old, vext)]),
                            !.arrs = IF es.hf_follow_state THEN Append(@, 0) ELSE @]
                      /\ lv' = [lv EXCEPT !.eff = n, !.vext = vext]
                 ELSE /\ es' = [es EXCEPT
                            !.heap[old].hc =
                                GnHcore(get_hcore(es.heap, es.h0, old), vext)]
                      /\ lv' = [lv EXCEPT !.eff = old, !.vext = vext]
    /\ pc' = "r_kernel"
    /\ UNCHANGED <<args, ret, cfg>>

\* scf.hf.kernel(eff_scf, ...) and the assignment of its five results
RefKernel ==
    /\ pc = "r_kernel"
    /\ \E k \in 0 .. MaxVal, c \in BOOLEAN :
          LET e  == lv.eff
              na == Len(es.arrs) + 1
              \* get_occ = _occ_follow_state: eff_scf.mo_occ[:] = mo_occ
              a1 == IF es.hf_follow_state
                    THEN [es.arrs EXCEPT ![es.heap[e].mo_occ] = k]
                    ELSE es.arrs
          IN  /\ lv' = [lv EXCEPT !.h_seen = get_hcore(es.heap, es.h0, e)]
              /\ es' = [es EXCEPT
                     !.arrs = Append(a1, k),
                     !.heap[e] = [@ EXCEPT !.mo_coeff = k, !.mo_energy = k,
                                           !.mo_occ = na, !.scf_conv = c]]
    /\ pc' = "r_release"
    /\ UNCHANGED <<args, ret, cfg, gh>>

\* del(eff_scf.get_hcore); return eff_scf; self.entire_scf = eff_scf
RefRelease ==
    /\ pc = "r_release"
    /\ es' = [es EXCEPT !.heap[lv.eff] = release(@),
                        !.entire_scf = lv.eff,
                        !.emb_entire_scf = lv.eff]
    /\ pc' = "r_embs"
    /\ UNCHANGED <<args, ret, cfg, lv, gh>>

\* update_embs: hcore = eff_scf.get_hcore(mol); eff_scf.scf_conv is not read
RefUpdateEmbs ==
    /\ pc = "r_embs"
    /\ lv' = [lv EXCEPT !.h_embs = get_hcore(es.heap, es.h0, es.entire_scf)]
    /\ pc' = "r_fit_ci"
    /\ UNCHANGED <<args, ret, cfg, es, gh>>

\* vfit_ci_method, then in dmet_sc update_embs_vfit_ci with embscf_:
\* emb.scf_conv, ... = scf.hf.kernel(emb, ...); emb.scf_conv is not read
RefFitCi ==
    /\ pc = "r_fit_ci"
    /\ \E c \in BOOLEAN :
          /\ es.driver = "gn" => c
          /\ lv' = [lv EXCEPT !.emb_conv = c]
    /\ pc' = "r_energy"
    /\ UNCHANGED <<args, ret, cfg, es, gh>>

\* assemble_frag_energy and the end of the iteration
RefEnergy ==
    /\ pc = "r_energy"
    /\ lv' = [lv EXCEPT !.icyc = @ + 1]
    /\ IF lv.icyc + 1 < MaxIter
       THEN pc' = "r_start" /\ ret' = ret
       ELSE pc' = "done" /\ ret' = Ret(lv.icyc + 1)
    /\ UNCHANGED <<args, cfg, es, gh>>

NextRef ==
    \/ RefDup \/ RefKernel \/ RefRelease \/ RefUpdateEmbs \/ RefFitCi
    \/ RefEnergy

SpecRef == InitRef /\ [][NextRef]_vars

(***************************************************************************)
(* Building the embedding system from the fragment lists.  A fragment      *)
(* entry is a list of basis indices (atoms, in frag_group) or a list of    *)
(* such lists, one per symmetry copy; isinstance(x[0], int) tells the two  *)
(* apart and raises IndexError on an empty list.  dmet_hf.decompose_orbital*)
(* is outside these files: on an empty fragment it may return or raise.    *)
(***************************************************************************)
FlatEntry(l) == [copies |-> FALSE, idx |-> l]
CopyEntry(ls) == [copies |-> TRUE, idx |-> ls]

\* atm_basidx[ia]: the basis functions carried by atom ia, numbered from 0
atm_basidx(nbas, ia) ==
    LET off == SumSeq([a \in 1 .. ia - 1 |-> nbas[a]])
    IN  [k \in 1 .. nbas[ia] |-> off + k - 1]

\* _remove_bas_if_not_on_frag
remove_bas_if_not_on_frag(nbas, atm_lst) ==
    Flatten([k \in 1 .. Len(atm_lst) |-> atm_basidx(nbas, atm_lst[k])])

\* basidx_group as gen_frag_looper derives it from frag_group
map_frag_to_basidx(nbas, frag_group) ==
    [m \in 1 .. Len(frag_group) |->
        IF frag_group[m].copies
        THEN CopyEntry([k \in 1 .. Len(frag_group[m].idx) |->
                           remove_bas_if_not_on_frag(nbas, frag_group[m].idx[k])])
        ELSE FlatEntry(remove_bas_if_not_on_frag(nbas, frag_group[m].idx))]

\* the group the looper works on: frag_group wins when it is given
looper_group(e) ==
    IF e.frag_group # <<>> THEN map_frag_to_basidx(e.nbas, e.frag_group)
    ELSE e.basidx_group

\* frags[0] / frag_basidx[0] on an empty list
looper_raises(e) ==
    \/ \E m \in 1 .. Len(e.frag_group) : Len(e.frag_group[m].idx) = 0
    \/ \E m \in 1 .. Len(looper_group(e)) : Len(looper_group(e)[m].idx) = 0

\* bas_on_frag of the embeddings that are built
built_frags(e) ==
    IF e.driver = "sc"
    THEN [m \in 1 .. Len(looper_group(e)) |->
             IF looper_group(e)[m].copies THEN looper_group(e)[m].idx[1]
             ELSE looper_group(e)[m].idx]
    ELSE IF e.translational
         THEN <<e.basidx_group[1].idx>>
         ELSE [m \in 1 .. Len(e.basidx_group) |-> e.basidx_group[m].idx]

\* every basis-index list of the configuration, copies included
all_lists(e) ==
    LET g == IF e.driver = "sc" THEN looper_group(e) ELSE e.basidx_group
    IN  Flatten([m \in 1 .. Len(g) |->
                    IF g[m].copies THEN g[m].idx ELSE <<g[m].idx>>])

\* frag_group as the second loop of gen_frag_looper reads it: the one given,
\* or [] per plain entry and [[]]*len(frag_basidx) per entry with copies
looper_frag_group(e) ==
    IF e.frag_group # <<>> THEN e.frag_group
    ELSE [m \in 1 .. Len(e.basidx_group) |->
             IF e.basidx_group[m].copies
             THEN CopyEntry([k \in 1 .. Len(e.basidx_group[m].idx) |-> <<>>])
             ELSE FlatEntry(<<>>)]

LooperEntry(emb_id, atm_lst, bas_idx) ==
    [m |-> emb_id, atm_lst |-> atm_lst, bas_idx |-> bas_idx]

looper_loop_every_copy(k, acc, bg, fg) ==
    \* uniq_frags.append moved into the loop over the copies
    IF ~bg[k].copies
    THEN [all_frags |-> Append(acc.all_frags, LooperEntry(k - 1, fg[k].idx, bg[k].idx)),
          uniq_frags |-> Append(acc.uniq_frags, LooperEntry(k - 1, fg[k].idx, bg[k].idx))]
    ELSE [all_frags |-> acc.all_frags \o
              [c \in 1 .. Len(bg[k].idx) |->
                  LooperEntry(k - 1, fg[k].idx[c], bg[k].idx[c])],
          uniq_frags |-> acc.uniq_frags \o
              [c \in 1 .. Len(bg[k].idx) |->
                  LooperEntry(k - 1, fg[k].idx[c], bg[k].idx[c])]]

\* one pass of `for emb_id, frag_basidx in enumerate(basidx_group)`
looper_loop(k, acc, bg, fg) ==
    IF ~bg[k].copies
    THEN [all_frags |-> Append(acc.all_frags, LooperEntry(k - 1, fg[k].idx, bg[k].idx)),
          uniq_frags |-> Append(acc.uniq_frags, LooperEntry(k - 1, fg[k].idx, bg[k].idx))]
    ELSE [all_frags |-> acc.all_frags \o
              [c \in 1 .. Len(bg[k].idx) |->
                  LooperEntry(k - 1, fg[k].idx[c], bg[k].idx[c])],
          uniq_frags |-> Append(acc.uniq_frags,
                                LooperEntry(k - 1, fg[k].idx[1], bg[k].idx[1]))]

RECURSIVE looper_run(_, _, _, _)
looper_run(k, acc, bg, fg) ==
    IF k > Len(bg) THEN acc
    ELSE looper_run(k + 1, looper_loop(k, acc, bg, fg), bg, fg)

\* (all_frags, uniq_frags) as gen_frag_looper returns them
looper_lists(e) ==
    looper_run(1, [all_frags |-> <<>>, uniq_frags |-> <<>>],
               looper_group(e), looper_frag_group(e))

\* build_: for m, atm_lst, bas_idx in self.uniq_frags: emb = ...; embs.append(emb)
build_embs(uniq_frags) ==
    [k \in 1 .. Len(uniq_frags) |->
        [imp_atoms |-> uniq_frags[k].atm_lst, bas_on_frag |-> uniq_frags[k].bas_idx]]

NbasChoices == [1 .. 2 -> 0 .. MaxVal]

FragGroupChoices ==
    { <<>>,
      <<FlatEntry(<<1>>), FlatEntry(<<2>>)>>,
      <<FlatEntry(<<1, 2>>)>>,
      <<CopyEntry(<<(<<1>>), (<<2>>)>>)>>,
      <<FlatEntry(<<1>>), CopyEntry(<<(<<2>>), (<<1>>)>>)>> }

BasidxChoices ==
    { <<FlatEntry(<<0>>), FlatEntry(<<1>>)>>,
      <<FlatEntry(<<0, 1>>)>>,
      <<FlatEntry(<<>>)>>,
      <<FlatEntry(<<0>>), FlatEntry(<<>>)>>,
      <<CopyEntry(<<(<<0>>), (<<1>>)>>)>>,
      <<CopyEntry(<<(<<>>), (<<1>>)>>)>>,
      <<CopyEntry(<<(<<0>>), (<<>>)>>)>>,
      <<CopyEntry(<<(<<0>>), (<<1>>)>>), FlatEntry(<<2>>)>>,
      <<FlatEntry(<<0>>), CopyEntry(<<(<<1>>), (<<2>>)>>)>> }

InitBuild ==
    /\ \E d \in {"sc", "gn"}, nb \in NbasChoices, fg \in FragGroupChoices,
          bg \in BasidxChoices, iv \in BOOLEAN, tr \in BOOLEAN :
          \* dmet_global_new reads basidx_group only, as plain index lists
          /\ d = "gn" => /\ fg = <<>> /\ ~iv
                         /\ \A m \in 1 .. Len(bg) : ~bg[m].copies
          /\ d = "sc" => tr
          /\ es = [driver |-> d, nbas |-> nb, frag_group |-> fg,
                   basidx_group |-> bg, init_v |-> iv, translational |-> tr]
    /\ lv = [mf_calls |-> 0, ci_calls |-> 0, nembs |-> 0,
             all_frags |-> <<>>, uniq_frags |-> <<>>, embs |-> <<>>]
    /\ pc = "b_start"
    /\ args = [fn |-> "build_"]
    /\ AsmIdle

BuildRaise(kind) == [done |-> TRUE, raised |-> TRUE, kind |-> kind]

\* dmet_sc build_: gen_frag_looper
BuildLooper ==
    /\ pc = "b_start"
    /\ es.driver = "sc"
    /\ IF looper_raises(es)
       THEN pc' = "raised" /\ ret' = BuildRaise("IndexError") /\ lv' = lv
       ELSE /\ pc' = "b_init_v"
            /\ ret' = ret
            /\ lv' = [lv EXCEPT !.all_frags = looper_lists(es).all_frags,
                                !.uniq_frags = looper_lists(es).uniq_frags]
    /\ UNCHANGED <<args, cfg, es, gh>>

\* dmet_sc build_: if self._init_v is not None: run_hf_with_ext_pot_
BuildInitV ==
    /\ pc = "b_init_v"
    /\ lv' = [lv EXCEPT !.mf_calls = IF es.init_v THEN @ + 1 ELSE @]
    /\ pc' = "b_embs"
    /\ UNCHANGED <<args, ret, cfg, es, gh>>

\* dmet_global_new build_: the loop over basidx_group, no test of bidx
BuildGnLoop ==
    /\ pc = "b_start"
    /\ es.driver = "gn"
    /\ pc' = "b_embs"
    /\ UNCHANGED <<args, ret, cfg, es, lv, gh>>

\* the embeddings are made and update_embs decomposes the orbitals
BuildEmbs ==
    /\ pc = "b_embs"
    /\ \E outcome \in {"returns", "raises"} :
          /\ outcome = "raises" =>
                \E m \in 1 .. Len(built_frags(es)) : Len(built_frags(es)[m]) = 0
          /\ IF outcome = "raises"
             THEN pc' = "raised" /\ ret' = BuildRaise("external") /\ lv' = lv
             ELSE /\ pc' = IF es.driver = "sc" THEN "b_embscf" ELSE "b_fit_ci"
                  /\ ret' = ret
                  /\ lv' = [lv EXCEPT
                         !.nembs = Len(built_frags(es)),
                         !.embs = IF es.driver = "sc"
                                  THEN build_embs(lv.uniq_frags)
                                  ELSE [k \in 1 .. Len(built_frags(es)) |->
                                           [imp_atoms |-> <<>>,
                                            bas_on_frag |-> built_frags(es)[k]]]]
    /\ UNCHANGED <<args, cfg, es, gh>>

\* dmet_sc update_embs_vfit_ci: embscf_ runs scf.hf.kernel on every embedding
BuildEmbScf ==
    /\ pc = "b_embscf"
    /\ lv' = [lv EXCEPT !.mf_calls = @ + lv.nembs]
    /\ pc' = "b_fit_ci"
    /\ UNCHANGED <<args, ret, cfg, es, gh>>

\* vfit_ci_method: the first call of the correlated solver
BuildFitCi ==
    /\ pc = "b_fit_ci"
    /\ lv' = [lv EXCEPT !.ci_calls = @ + 1]
    /\ pc' = "b_done"
    /\ UNCHANGED <<args, ret, cfg, es, gh>>

NextBuild ==
    \/ BuildLooper \/ BuildInitV \/ BuildGnLoop \/ BuildEmbs \/ BuildEmbScf
    \/ BuildFitCi

SpecBuild == InitBuild /\ [][NextBuild]_vars

(***************************************************************************)
(* Global assembly in dmet_sc.  all_frags lists, for every symmetry copy,  *)
(* the embedding m it belongs to and the copy's own basis indices; embs[m] *)
(* carries the representative's bas_on_frag and its bath orbitals (nao x   *)
(* nbath, made outside these files).  v_group[m] is the (nimp + nbath)     *)
(* square matrix of embedding m.                                           *)
(***************************************************************************)
Frag(m, bas_idx) == [m |-> m, bas_idx |-> bas_idx]

\* for m, atm_lst, bas_idx in self.all_frags: v_add[j,bas_idx] = vfrag[i,:]
RECURSIVE sc_blockmat_loop(_, _, _, _)
sc_blockmat_loop(k, v_add, all_frags, v_group) ==
    IF k > Len(all_frags) THEN v_add
    ELSE LET bas_idx == all_frags[k].bas_idx
             nimp == Len(bas_idx)
             vfrag == Slice(v_group[all_frags[k].m], nimp)
         IN  sc_blockmat_loop(k + 1, SetBlock(v_add, bas_idx, vfrag),
                              all_frags, v_group)

sc_assemble_to_blockmat(embsys, v_group) ==
    sc_blockmat_loop(1, Zeros(embsys.nao), embsys.all_frags, v_group)

\* dm_ab = dot(dm_group[m][:nimp,nimp:], emb.bath_orb.T)
\* dm_ab[:,emb.bas_on_frag] = dm_group[m][:nimp,:nimp]
fullmat_rows(emb, dm, nao) ==
    LET nimp == Len(emb.bas_on_frag)
    IN  [ic \in (1 .. nimp) \X (0 .. nao - 1) |->
            IF InFrag(emb.bas_on_frag, ic[2])
            THEN dm[<<ic[1], PosOf(emb.bas_on_frag, ic[2])>>]
            ELSE SumSeq([b \in 1 .. NBath |->
                            dm[<<ic[1], nimp + b>>] * emb.bath_orb[<<ic[2], b>>]])]

\* dm_big[emb.bas_on_frag] = dm_ab
RECURSIVE sc_fullmat_loop(_, _, _, _, _)
sc_fullmat_loop(k, dm_big, all_frags, embs, dm_group) ==
    IF k > Len(all_frags) THEN dm_big
    ELSE LET emb == embs[all_frags[k].m]
             dm_ab == fullmat_rows(emb, dm_group[all_frags[k].m],
                                   Cardinality({ij[1] : ij \in DOMAIN dm_big}))
         IN  sc_fullmat_loop(k + 1,
                 [ij \in DOMAIN dm_big |->
                     IF InFrag(emb.bas_on_frag, ij[1])
                     THEN dm_ab[<<PosOf(emb.bas_on_frag, ij[1]), ij[2]>>]
                     ELSE dm_big[ij]],
                 all_frags, embs, dm_group)

sc_assemble_to_fullmat(embsys, dm_group) ==
    sc_fullmat_loop(1, Zeros(embsys.nao), embsys.all_frags, embsys.embs, dm_group)

\* all_frags of gen_frag_looper for some fragment configurations
ScLayouts ==
    { [nao |-> 2, all_frags |-> <<Frag(1, <<0>>), Frag(1, <<1>>)>>],
      [nao |-> 3, all_frags |-> <<Frag(1, <<0>>), Frag(1, <<1>>)>>],
      [nao |-> 3, all_frags |-> <<Frag(1, <<0>>), Frag(2, <<1, 2>>)>>],
      [nao |-> 4, all_frags |-> <<Frag(1, <<0, 1>>), Frag(1, <<2, 3>>)>>],
      [nao |-> 4, all_frags |-> <<Frag(1, <<0, 2>>), Frag(1, <<3, 1>>)>>] }

\* uniq_frags: the first copy listed for each embedding
ScUniq(l) ==
    [m \in {l.all_frags[k].m : k \in 1 .. Len(l.all_frags)} |->
        l.all_frags[CHOOSE k \in 1 .. Len(l.all_frags) :
                        /\ l.all_frags[k].m = m
                        /\ \A j \in 1 .. k - 1 : l.all_frags[j].m # m].bas_idx]

BathOrbs(nao) == [(0 .. nao - 1) \X (1 .. NBath) -> 0 .. 1]

InitScAsm ==
    /\ \E l \in ScLayouts, wh \in BOOLEAN :
       \E embs \in [DOMAIN ScUniq(l) -> [bas_on_frag : {ScUniq(l)[m] : m \in DOMAIN ScUniq(l)},
                                          bath_orb : BathOrbs(l.nao)]],
          v \in [DOMAIN ScUniq(l) -> UNION {SymMats(n) : n \in 2 .. 2 + NBath}] :
          /\ \A m \in DOMAIN ScUniq(l) :
                /\ embs[m].bas_on_frag = ScUniq(l)[m]
                /\ DOMAIN v[m] = Pos(Len(ScUniq(l)[m]) + NBath)
          /\ es = [nao |-> l.nao, all_frags |-> l.all_frags, embs |-> embs,
                   with_hopping |-> wh]
          /\ lv = [v_mf_group |-> v]
    /\ pc = "a_start"
    /\ args = [fn |-> "update_embsys"]
    /\ AsmIdle

\* update_embsys: v_add = assemble_to_fullmat / assemble_to_blockmat (v_mf_group)
ScAssemble ==
    /\ pc = "a_start"
    /\ ret' = Ret(IF es.with_hopping
                  THEN sc_assemble_to_fullmat(es, lv.v_mf_group)
                  ELSE sc_assemble_to_blockmat(es, lv.v_mf_group))
    /\ pc' = "done"
    /\ UNCHANGED <<args, cfg, es, lv, gh>>

NextScAsm == ScAssemble

SpecScAsm == InitScAsm /\ [][NextScAsm]_vars

(***************************************************************************)
(* FIT_MF followed by the dv of the iteration, on matrices.                *)
(*                                                                         *)
(* dmet_sc: fit_without_local_scf, src/dmet_sc.py:593-616, adds the damped *)
(* update of fitdm.fit_solver to emb.vfit_mf, and diff_vfit,               *)
(* src/dmet_sc.py:494-506, compares the strict lower triangles of the      *)
(* impurity blocks.  dmet_global_new: vfit_mf_method,                      *)
(* src/dmet_global_new.py:425-429, adds the blocks of fit_solver's         *)
(* recentred solution to embsys.vfit_mf, and scdmet,                       *)
(* src/dmet_global_new.py:379-381, takes the norm of the off-diagonal part *)
(* of the unpacked difference.  The update of the external least-squares   *)
(* solver is an input.  The damping factor is fac2 / 2 and the updates are *)
(* even, so the damped update stays on the grid; the potentials of         *)
(* dmet_global_new are kept multiplied by nao, as the recentred solution.  *)
(***************************************************************************)
Dim(mat) == CHOOSE n \in 0 .. 8 : DOMAIN mat = Pos(n)

\* `if embsys.fitpot_damp_fac > 0: dv *= embsys.fitpot_damp_fac`
fitpot_damp(dv, fac2) ==
    IF fac2 > 0 THEN [ab \in DOMAIN dv |-> (dv[ab] * fac2) \div 2] ELSE dv

\* the update is returned without emb.vfit_mf
fit_without_local_scf_dv_only(vfit_mf, dv_fit, fac2) ==
    LET dv == fitpot_damp(dv_fit, fac2)
    IN  IF Dim(dv) > Dim(vfit_mf)
        THEN [ab \in DOMAIN dv |->
                 dv[ab] + (IF ab \in DOMAIN vfit_mf THEN vfit_mf[ab] ELSE 0)]
        ELSE [ab \in DOMAIN vfit_mf |->
                 IF ab \in DOMAIN dv THEN dv[ab] ELSE 0]

fit_without_local_scf(vfit_mf, dv_fit, fac2) ==
    LET dv == fitpot_damp(dv_fit, fac2)
    IN  IF Dim(dv) > Dim(vfit_mf)
        THEN [ab \in DOMAIN dv |->
                 dv[ab] + (IF ab \in DOMAIN vfit_mf THEN vfit_mf[ab] ELSE 0)]
        ELSE [ab \in DOMAIN vfit_mf |->
                 vfit_mf[ab] + (IF ab \in DOMAIN dv THEN dv[ab] ELSE 0)]

\* numpy.tril_indices(nimp, k) in row-major order, k = -1 or 0
TrilIndices(nimp, k) ==
    LET rows == [a \in 1 .. nimp |->
                    [b \in 1 .. (IF a + k > 0 THEN a + k ELSE 0) |-> <<a, b>>]]
    IN  Flatten(rows)

SqDiff(x, y) == (x - y) * (x - y)

\* the lower triangle includes the diagonal
diff_vfit_mat_with_diag(nimps, v_group, v_group_old) ==
    LET ss == SumSeq([m \in 1 .. Len(nimps) |->
                  LET idx == TrilIndices(nimps[m], 0)
                  IN  4 * SumSeq([k \in 1 .. Len(idx) |->
                          SqDiff(v_group[1][m][idx[k]], v_group_old[1][m][idx[k]])])])
    IN  ISqrt(ss)

diff_vfit_mat(nimps, v_group, v_group_old) ==
    LET ss == SumSeq([m \in 1 .. Len(nimps) |->
                  LET idx == TrilIndices(nimps[m], -1)
                  IN  4 * SumSeq([k \in 1 .. Len(idx) |->
                          SqDiff(v_group[1][m][idx[k]], v_group_old[1][m][idx[k]])])])
    IN  ISqrt(ss)

\* `v = [embsys.vfit_mf[m]+dv[m] ...]`, times nao
gn_vfit_mf_method(embsys, vfit) ==
    LET sol == recentre_times_nao(decompress(embsys, vfit), embsys.nao)
    IN  [m \in 1 .. Len(embsys.embs) |->
            LET dv == Block(sol, embsys.embs[m].bas_on_frag)
            IN  [ab \in DOMAIN dv |-> embsys.nao * embsys.vfit_mf[m][ab] + dv[ab]]]

gn_diff_vfit(embsys, vfit_mf, vfit_mf_old) ==
    LET new == unpack(embsys, vfit_mf)
    IN  ISqrt(SumSeq([i \in 1 .. embsys.nao |->
            SumSeq([j \in 1 .. embsys.nao |->
                IF i = j THEN 0
                ELSE SqDiff(new[<<i - 1, j - 1>>] \div embsys.nao,
                            vfit_mf_old[<<i - 1, j - 1>>] \div embsys.nao)])]))

\* a potential with diagonal d and off-diagonal o in the impurity block and
\* b in the bath rows and columns
Mat3(n, nimp, d, o, b) ==
    [ab \in Pos(n) |->
        IF ab[1] <= nimp /\ ab[2] <= nimp
        THEN (IF ab[1] = ab[2] THEN d ELSE o)
        ELSE b]

\* a symmetric update with one pair of entries set
OneEntry(n, p, val) ==
    [ab \in Pos(n) |-> IF ab = p \/ ab = <<p[2], p[1]>> THEN val ELSE 0]

DvFits(n) ==
    {OneEntry(n, p, 2 * val) :
        p \in {q \in Pos(n) : q[1] >= q[2]}, val \in 1 .. MaxVal}
    \cup {OneEntry(n, <<1, 1>>, 0)}

FitNimps == {<<1>>, <<2>>, <<3>>, <<1, 1>>, <<2, 1>>}

FacChoices == {0, 1, 3}

InitFitSc ==
    \E nimps \in FitNimps, d, o, b, c \in 0 .. MaxVal, fac2 \in FacChoices :
        /\ es = [driver |-> "fsc", nimps |-> nimps, fitpot_damp_fac2 |-> fac2,
                 vfit_mf |-> [m \in 1 .. Len(nimps) |->
                                 Mat3(nimps[m] + NBath, nimps[m], d, o, b)],
                 vfit_ci |-> [m \in 1 .. Len(nimps) |->
                                 Mat3(nimps[m] + NBath, nimps[m], 0, 0, 0)]]
        /\ \E dvs \in [1 .. Len(nimps) ->
                          UNION {DvFits(n) : n \in 1 .. 3 + NBath}] :
              /\ \A m \in 1 .. Len(nimps) :
                     Dim(dvs[m]) \in {nimps[m], nimps[m] + NBath}
              /\ args = [fn |-> "fit_mf", dv_fit |-> dvs,
                         v_ci |-> [m \in 1 .. Len(nimps) |->
                                      Mat3(nimps[m] + NBath, nimps[m], c, c, c)]]

InitFitGn ==
    \E l \in AsmLayouts, t \in BOOLEAN, d, o \in 0 .. MaxVal :
        /\ t => EqualSize(l.basidx_group)
        /\ es = [driver |-> "fgn", nao |-> l.nao, basidx_group |-> l.basidx_group,
                 translational |-> t,
                 embs |-> [m \in 1 .. gn_n_embs(l.basidx_group, t) |->
                              [bas_on_frag |-> l.basidx_group[m]]],
                 vfit_mf |-> [m \in 1 .. gn_n_embs(l.basidx_group, t) |->
                                 Mat3(Len(l.basidx_group[m]),
                                      Len(l.basidx_group[m]), d, o, 0)]]
        /\ \E x \in [1 .. NParams(es.embs) -> 0 .. MaxVal] :
               args = [fn |-> "fit_mf", vfit |-> x]

InitFit ==
    /\ InitFitSc \/ InitFitGn
    /\ pc = "f_fit"
    /\ lv = [at |-> "none"]
    /\ AsmIdle

\* gen_all_vfit_by(fit_without_local_scf), src/dmet_sc.py:672-685
FitMfSc ==
    /\ pc = "f_fit"
    /\ es.driver = "fsc"
    /\ lv' = [at |-> "v",
              v_mf_group |-> [m \in 1 .. Len(es.nimps) |->
                  fit_without_local_scf(es.vfit_mf[m], args.dv_fit[m],
                                        es.fitpot_damp_fac2)]]
    /\ pc' = "f_dv"
    /\ UNCHANGED <<args, ret, cfg, es, gh>>

\* `dv = embsys.diff_vfit(v_group, v_group_old)`, src/dmet_sc.py:719-721
FitDvSc ==
    /\ pc = "f_dv"
    /\ es.driver = "fsc"
    /\ lv' = [lv EXCEPT !.at = "dv"] @@
             [dv |-> diff_vfit_mat(es.nimps, <<lv.v_mf_group, args.v_ci>>,
                                   <<es.vfit_mf, es.vfit_ci>>)]
    /\ pc' = "done"
    /\ UNCHANGED <<args, ret, cfg, es, gh>>

FitMfGn ==
    /\ pc = "f_fit"
    /\ es.driver = "fgn"
    /\ lv' = [at |-> "v", v_mf_group |-> gn_vfit_mf_method(es, args.vfit)]
    /\ pc' = "f_dv"
    /\ UNCHANGED <<args, ret, cfg, es, gh>>

\* src/dmet_global_new.py:361 and 379-381
FitDvGn ==
    /\ pc = "f_dv"
    /\ es.driver = "fgn"
    /\ lv' = [lv EXCEPT !.at = "dv"] @@
             [dv |-> gn_diff_vfit(es, lv.v_mf_group,
                         recentre_no_shift(unpack(es, es.vfit_mf), es.nao))]
    /\ pc' = "done"
    /\ UNCHANGED <<args, ret, cfg, es, gh>>

NextFit ==
    \/ FitMfSc
    \/ FitDvSc
    \/ FitMfGn
    \/ FitDvGn

SpecFit == InitFit /\ [][NextFit]_vars

(***************************************************************************)
(* The state-following occupation of run_hf_with_ext_pot_,                 *)
(* src/dmet_sc.py:781-812.  scf.hf.kernel calls eff_scf.get_occ once per   *)
(* SCF iteration with the new orbitals; prj = mo_coeff.T S eff_scf.mo_coeff *)
(* is the overlap of the new orbitals (rows) with the previous ones        *)
(* (columns).  Both sets are orthonormal, so the rows of prj are mutually  *)
(* orthogonal; only the comparison of absolute values within a row enters  *)
(* argmax, so each row is kept up to a positive factor, with integer       *)
(* entries.                                                                *)
(***************************************************************************)
PrjVals == {-1, 0, 1}

OccSizes == {2, 3, 4}

Dot(r, s) == SumSeq([k \in 1 .. Len(r) |-> r[k] * s[k]])

PrjRows(n) == {r \in [1 .. n -> PrjVals] : \E k \in 1 .. n : r[k] # 0}

RECURSIVE OrthMats(_, _)
OrthMats(n, k) ==
    IF k = 0 THEN {<<>>}
    ELSE UNION {{Append(p, r) :
                    r \in {q \in PrjRows(n) :
                              \A j \in 1 .. Len(p) : Dot(q, p[j]) = 0}} :
                p \in OrthMats(n, k - 1)}

\* abs(row).argmax(): the first index of the largest absolute value
argmax_abs(row) ==
    CHOOSE j \in 1 .. Len(row) :
        /\ \A k \in 1 .. Len(row) : Abs(row[k]) <= Abs(row[j])
        /\ \A k \in 1 .. j - 1 : Abs(row[k]) < Abs(row[j])

\* prj[:,imax] = 0
zero_column(prj, imax) ==
    [i \in 1 .. Len(prj) |-> [prj[i] EXCEPT ![imax] = 0]]

\* the loop `for i,occ in enumerate(eff_scf.mo_occ)`, src/dmet_sc.py:785-789
RECURSIVE occ_follow_loop(_, _, _, _)
occ_follow_loop(i, prj, mo_occ, old_occ) ==
    IF i > Len(old_occ) THEN mo_occ
    ELSE IF old_occ[i] > 0
         THEN LET imax == argmax_abs(prj[i])
              IN  occ_follow_loop(i + 1, zero_column(prj, imax),
                                  [mo_occ EXCEPT ![imax] = 2], old_occ)
         ELSE occ_follow_loop(i + 1, prj, mo_occ, old_occ)

occ_follow_state(prj, old_occ) ==
    occ_follow_loop(1, prj, [i \in 1 .. Len(old_occ) |-> 0], old_occ)

\* eff_scf.mo_occ is [2]*(nelectron/2) + [0]*... at the first call,
\* src/dmet_sc.py:779-780, and the occupation of the call before afterwards
InitOcc ==
    \E n \in OccSizes, nocc \in 1 .. 4 :
        /\ nocc <= n
        /\ \E occ \in [1 .. n -> {0, 2}] :
               /\ Cardinality({i \in 1 .. n : occ[i] = 2}) = nocc
               /\ es = [driver |-> "occ", n |-> n, nocc |-> nocc, mo_occ |-> occ,
                        old_occ |-> occ]
        /\ args = [fn |-> "kernel"]
        /\ lv = [calls |-> 0]
        /\ pc = "o_scf"
        /\ AsmIdle

\* one SCF iteration of scf.hf.kernel calling eff_scf.get_occ
OccFollowState ==
    /\ pc = "o_scf"
    /\ lv.calls = 0
    /\ \E prj \in OrthMats(es.n, es.n) :
           /\ es' = [es EXCEPT !.mo_occ = occ_follow_state(prj, es.mo_occ)]
           /\ args' = [fn |-> "get_occ", prj |-> prj]
    /\ lv' = [calls |-> lv.calls + 1]
    /\ UNCHANGED <<ret, cfg, pc, gh>>

\* the kernel returns the occupation of its last iteration,
\* src/dmet_sc.py:815-818
OccKernelReturn ==
    /\ pc = "o_scf"
    /\ lv.calls > 0
    /\ ret' = Ret(es.mo_occ)
    /\ pc' = "done"
    /\ UNCHANGED <<args, cfg, es, lv, gh>>

NextOcc ==
    \/ OccFollowState
    \/ OccKernelReturn

SpecOcc == InitOcc /\ [][NextOcc]_vars

(***************************************************************************)
(* dmet_sc_cycle, src/dmet_sc.py:690-742, and the closing energy of        *)
(* EmbSys.scdmet, src/dmet_sc.py:509-561, with the identity of the numpy   *)
(* arrays kept: es.heap[id] is the content of array id, and emb.vfit_mf,   *)
(* emb.vfit_ci, emb.hcore and the entries of the potential groups are ids. *)
(* An assignment `x = y` copies the id, `x[:n,:n] = y` and `x += y` change *)
(* the content of the array x refers to, and .copy() makes a new array.    *)
(*                                                                         *)
(* The fit update and the chemical potential of each fragment come from    *)
(* fitdm.fit_solver and scipy.optimize.newton; they are inputs, one per    *)
(* fragment.  vfit_mf_method and vfit_ci_method are attributes of EmbSys   *)
(* (src/dmet_sc.py:117-122); update_embs_vfit_mf and update_embs_vfit_ci   *)
(* take potentials smaller than the embedding (src/dmet_sc.py:279-281,     *)
(* 299-301), and es.mf_block / es.ci_block say that the method returns the *)
(* impurity block only.  The fragments of one fitting stage are taken in   *)
(* any order.                                                              *)
(***************************************************************************)
\* the array is used without a copy
ndarray_copy_alias(heap, id) == [heap |-> heap, id |-> id]

ndarray_copy(heap, id) == [heap |-> Append(heap, heap[id]), id |-> Len(heap) + 1]

ndarray_new(heap, val) == [heap |-> Append(heap, val), id |-> Len(heap) + 1]

\* a[:nd,:nd] = b
set_block(a, b) == [ab \in DOMAIN a |-> IF ab \in DOMAIN b THEN b[ab] ELSE a[ab]]

\* a[:nd,:nd] += b
add_block(a, b) ==
    [ab \in DOMAIN a |-> a[ab] + (IF ab \in DOMAIN b THEN b[ab] ELSE 0)]

SumAll(mat) ==
    LET n == Dim(mat)
    IN  SumSeq([a \in 1 .. n |-> SumSeq([b \in 1 .. n |-> mat[<<a, b>>]])])

Const(n, val) == [ab \in Pos(n) |-> val]

\* emb.get_hcore(mol) of dmet_hf.RHF: the projected core Hamiltonian plus
\* the potential of the environment, a new array at every call
emb_get_hcore(heap, emb) == ndarray_new(heap, heap[emb.hcore])

\* the potential is added to the array the embedding keeps
use_local_solver_on_emb(heap, emb, vfit) ==
    LET h2 == [heap EXCEPT ![emb.hcore] = add_block(@, heap[vfit])]
    IN  [heap |-> h2, res |-> SumAll(h2[emb.hcore]) + emb.mo]

\* impsolver.use_local_solver, src/impsolver.py:101-114; the local solver
\* is a function of h1e and emb.mo_coeff_on_imp, and h1e is dropped at the
\* return
use_local_solver(heap, emb, vfit) ==
    LET g  == emb_get_hcore(heap, emb)
        h2 == [g.heap EXCEPT ![g.id] = add_block(@, g.heap[vfit])]
    IN  [heap |-> SubSeq(h2, 1, Len(heap)), res |-> SumAll(h2[g.id]) + emb.mo]

\* embsys.solver.run(emb, emb._eri, vfit, ...)
solver_run(heap, emb, vfit) == use_local_solver(heap, emb, vfit)

\* fit_without_local_scf, src/dmet_sc.py:593-616, on arrays
fit_mf_arr(heap, emb, dv_fit, fac2) ==
    LET s  == solver_run(heap, emb, emb.vfit_ci)
        dv == fitpot_damp(dv_fit, fac2)
    IN  IF Dim(dv) > Dim(s.heap[emb.vfit_mf])
        THEN ndarray_new(s.heap, add_block(dv, s.heap[emb.vfit_mf]))
        ELSE LET c == ndarray_copy(s.heap, emb.vfit_mf)
             IN  [heap |-> [c.heap EXCEPT ![c.id] = add_block(@, dv)],
                  id |-> c.id]

\* fit_chemical_potential, src/dmet_sc.py:632-664, on arrays: one trial of
\* nelec_diff, then the returned vmat
fit_ci_arr(heap, emb, v1) ==
    LET t  == ndarray_copy(heap, emb.vfit_ci)
        th == [t.heap EXCEPT ![t.id] = trial_vmat(@, emb.nimp, v1)]
        s  == solver_run(th, emb, t.id)
        h0 == IF t.id > Len(heap) THEN SubSeq(s.heap, 1, Len(heap)) ELSE s.heap
        c  == ndarray_copy(h0, emb.vfit_ci)
    IN  [heap |-> [c.heap EXCEPT ![c.id] = final_vmat(@, emb.nimp, v1)],
         id |-> c.id]

\* a method that returns the impurity block of the potential
imp_block_of(r, nimp) ==
    [heap |-> [r.heap EXCEPT ![r.id] = Slice(@, nimp)], id |-> r.id]

\* the loop of update_embs_vfit_mf / update_embs_vfit_ci,
\* src/dmet_sc.py:277-283 and 297-303, for the attribute fld
RECURSIVE update_vfit_loop(_, _, _, _, _)
update_vfit_loop(m, heap, embs, v_group, fld) ==
    IF m > Len(embs) THEN [heap |-> heap, embs |-> embs]
    ELSE IF Dim(heap[v_group[m]]) < embs[m].nemb
         THEN update_vfit_loop(m + 1,
                  [heap EXCEPT ![embs[m][fld]] = set_block(@, heap[v_group[m]])],
                  embs, v_group, fld)
         ELSE update_vfit_loop(m + 1, heap,
                  [embs EXCEPT ![m][fld] = v_group[m]], v_group, fld)

\* `if self.env_pot_for_ci == NO_IMP_BLK`, src/dmet_sc.py:312-316: vmf is a
\* new array, 1 outside the impurity block
RECURSIVE no_imp_blk_loop(_, _, _)
no_imp_blk_loop(m, heap, embs) ==
    IF m > Len(embs) THEN [heap |-> heap, embs |-> embs]
    ELSE LET vmf == set_block(Const(embs[m].nemb, 1),
                              Slice(heap[embs[m].vfit_ci], embs[m].nimp))
             c   == ndarray_new(heap, vmf)
         IN  no_imp_blk_loop(m + 1, c.heap, [embs EXCEPT ![m].vfit_ci = c.id])

update_embs_vfit_mf(heap, embs, v_mf_group, no_imp_blk) ==
    LET u == update_vfit_loop(1, heap, embs, v_mf_group, "vfit_mf")
    IN  IF no_imp_blk THEN no_imp_blk_loop(1, u.heap, u.embs) ELSE u

\* embscf_, src/dmet_sc.py:263-274: the embedded SCF under vfit_ci gives
\* emb.mo_coeff_on_imp
embscf(heap, emb) ==
    [emb EXCEPT !.mo = SumAll(add_block(heap[emb.hcore], heap[emb.vfit_ci]))
                           % (MaxVal + 2)]

update_embs_vfit_ci(heap, embs, v_ci_group) ==
    LET u == update_vfit_loop(1, heap, embs, v_ci_group, "vfit_ci")
    IN  [heap |-> u.heap,
         embs |-> [m \in 1 .. Len(embs) |-> embscf(u.heap, u.embs[m])]]

\* update_embs, src/dmet_sc.py:194-256, after run_hf_with_ext_pot_: the
\* projections are made again from the mean field under the potential of
\* all fragments
update_embs(heap, embs, v_mf_group) ==
    [m \in 1 .. Len(embs) |-> [embs[m] EXCEPT !.hcore = Len(heap) + m]]

update_embs_heap(heap, embs, v_mf_group) ==
    LET tot == SumSeq([m \in 1 .. Len(embs) |->
                   SumAll(Slice(heap[v_mf_group[m]], embs[m].nimp))])
    IN  heap \o [m \in 1 .. Len(embs) |->
                    Const(embs[m].nemb,
                          (heap[embs[m].hcore][<<1, 1>>] + tot) % (MaxVal + 1))]

\* EmbSys.assemble_frag_energy, src/dmet_sc.py:396-420, one fragment per
\* embedding: the sum of the solver's results
RECURSIVE energy_loop(_, _, _, _)
energy_loop(m, heap, embs, e_tot) ==
    IF m > Len(embs) THEN [heap |-> heap, e_tot |-> e_tot]
    ELSE LET s == solver_run(heap, embs[m], embs[m].vfit_ci)
         IN  energy_loop(m + 1, s.heap, embs, e_tot + s.res)

assemble_energy(heap, embs) == energy_loop(1, heap, embs, 0)

Vals(heap, ids) == [m \in 1 .. Len(ids) |-> heap[ids[m]]]

EmbView(heap, embs) ==
    [m \in 1 .. Len(embs) |->
        [vfit_mf |-> heap[embs[m].vfit_mf], vfit_ci |-> heap[embs[m].vfit_ci],
         hcore |-> heap[embs[m].hcore], mo |-> embs[m].mo]]

CycNimps == {<<2>>, <<2, 1>>}

\* the state EmbSys.build_ leaves, src/dmet_sc.py:149-191
InitCyc ==
    \E nimps \in CycNimps, o \in {0, MaxVal}, fac2 \in {0, 1},
       mfb, cib, nib \in BOOLEAN, c \in DriverCfgs :
        /\ c.max_iter \in {0, MaxIter}
        /\ c.max_iter > 0 \/ (~mfb /\ ~cib /\ ~nib /\ fac2 = 0)
        /\ cfg = c
        /\ LET nf == Len(nimps)
           IN  /\ es = [driver |-> "cyc", nimps |-> nimps,
                        fitpot_damp_fac2 |-> fac2,
                        mf_block |-> mfb, ci_block |-> cib, no_imp_blk |-> nib,
                        heap |-> [k \in 1 .. 3 * nf |->
                            LET m == ((k - 1) \div 3) + 1
                                n == nimps[m] + NBath
                            IN  CASE k % 3 = 1 -> Mat3(n, nimps[m], 0, o, 0)
                                  [] k % 3 = 2 -> Const(n, 0)
                                  [] OTHER     -> Const(n, 1)],
                        embs |-> [m \in 1 .. nf |->
                            [nimp |-> nimps[m], nemb |-> nimps[m] + NBath,
                             vfit_mf |-> 3 * m - 2, vfit_ci |-> 3 * m - 1,
                             hcore |-> 3 * m, mo |-> 0]]]
               /\ \E dvs \in [1 .. nf -> {0, MaxVal}], v1s \in [1 .. nf -> {0, MaxVal}] :
                      /\ nf > 1 => dvs[2] = 0 /\ v1s[2] = 0
                      /\ args = [fn |-> "dmet_sc_cycle", dv |-> dvs, v1 |-> v1s]
               /\ lv = [icyc |-> 0, todo |-> 1 .. nf,
                        v_mf_group |-> [m \in 1 .. nf |-> 3 * m - 2],
                        v_ci_group |-> [m \in 1 .. nf |-> 3 * m - 1],
                        v_group |-> <<(<<>>), (<<>>)>>,
                        v_group_old |-> <<(<<>>), (<<>>)>>,
                        e_tot |-> 0, e_tot_old |-> 0, dv |-> 0, conv |-> FALSE]
               /\ gh = [old_mf |-> <<>>, old_ci |-> <<>>,
                        view |-> EmbView(es.heap, es.embs),
                        asm |-> [heap |-> <<>>, embs |-> <<>>]]
        /\ pc = "y_ci0"
        /\ ret = NoRet

\* one fragment of vfit_ci_method, src/dmet_sc.py:676-679
CycFitCi ==
    /\ pc \in {"y_ci0", "y_fit_ci"}
    /\ \E m \in lv.todo :
           LET r0 == fit_ci_arr(es.heap, es.embs[m], args.v1[m])
               r  == IF es.ci_block THEN imp_block_of(r0, es.nimps[m]) ELSE r0
           IN  /\ es' = [es EXCEPT !.heap = r.heap]
               /\ lv' = [lv EXCEPT !.todo = @ \ {m}, !.v_ci_group[m] = r.id]
    /\ UNCHANGED <<args, ret, cfg, pc, gh>>

\* embsys.update_embs_vfit_ci(mol, embsys.embs, v_ci_group)
CycUpdateCi ==
    /\ pc \in {"y_ci0", "y_fit_ci"}
    /\ lv.todo = {}
    /\ LET u == update_embs_vfit_ci(es.heap, es.embs, lv.v_ci_group)
       IN  es' = [es EXCEPT !.heap = u.heap, !.embs = u.embs]
    /\ pc' = IF pc = "y_ci0" THEN "y_asm0" ELSE "y_asm"
    /\ UNCHANGED <<args, ret, cfg, lv, gh>>

\* src/dmet_sc.py:700-701
CycAssemble0 ==
    /\ pc = "y_asm0"
    /\ LET a == assemble_energy(es.heap, es.embs)
       IN  /\ es' = [es EXCEPT !.heap = a.heap]
           /\ lv' = [lv EXCEPT !.e_tot = a.e_tot,
                               !.v_group = <<lv.v_mf_group, lv.v_ci_group>>]
    /\ gh' = [gh EXCEPT !.asm = [heap |-> es.heap, embs |-> es.embs]]
    /\ pc' = "y_head"
    /\ UNCHANGED <<args, ret, cfg>>

\* src/dmet_sc.py:705-708
CycHead ==
    /\ pc = "y_head"
    /\ lv.icyc < cfg.max_iter
    /\ ~lv.conv
    /\ lv' = [lv EXCEPT !.v_group_old = lv.v_group, !.e_tot_old = lv.e_tot,
                        !.todo = 1 .. Len(es.embs), !.icyc = @ + 1]
    /\ gh' = [gh EXCEPT !.old_mf = Vals(es.heap, lv.v_group[1]),
                        !.old_ci = Vals(es.heap, lv.v_group[2]),
                        !.view = EmbView(es.heap, es.embs)]
    /\ pc' = "y_fit_mf"
    /\ UNCHANGED <<args, ret, cfg, es>>

\* one fragment of vfit_mf_method, src/dmet_sc.py:676-679
CycFitMf ==
    /\ pc = "y_fit_mf"
    /\ \E m \in lv.todo :
           LET dv_fit == Const(es.nimps[m], 2 * args.dv[m])
               r0 == fit_mf_arr(es.heap, es.embs[m], dv_fit, es.fitpot_damp_fac2)
               r  == IF es.mf_block THEN imp_block_of(r0, es.nimps[m]) ELSE r0
           IN  /\ es' = [es EXCEPT !.heap = r.heap]
               /\ lv' = [lv EXCEPT !.todo = @ \ {m}, !.v_mf_group[m] = r.id]
    /\ UNCHANGED <<args, ret, cfg, pc, gh>>

\* embsys.update_embsys(mol, v_mf_group), src/dmet_sc.py:380-393
CycUpdateEmbsys ==
    /\ pc = "y_fit_mf"
    /\ lv.todo = {}
    /\ LET e == update_embs(es.heap, es.embs, lv.v_mf_group)
           h == update_embs_heap(es.heap, es.embs, lv.v_mf_group)
           u == update_embs_vfit_mf(h, e, lv.v_mf_group, es.no_imp_blk)
       IN  es' = [es EXCEPT !.heap = u.heap, !.embs = u.embs]
    /\ lv' = [lv EXCEPT !.todo = 1 .. Len(es.embs)]
    /\ gh' = [gh EXCEPT !.view = EmbView(es'.heap, es'.embs)]
    /\ pc' = "y_fit_ci"
    /\ UNCHANGED <<args, ret, cfg>>

\* src/dmet_sc.py:719-733
CycAssemble ==
    /\ pc = "y_asm"
    /\ LET a  == assemble_energy(es.heap, es.embs)
           vg == <<lv.v_mf_group, lv.v_ci_group>>
           dv == diff_vfit_mat(es.nimps,
                     <<Vals(a.heap, vg[1]), Vals(a.heap, vg[2])>>,
                     <<Vals(a.heap, lv.v_group_old[1]),
                       Vals(a.heap, lv.v_group_old[2])>>)
           de == rel_change(lv.e_tot, a.e_tot)
           decorr == abs_change(a.e_tot, lv.e_tot)
       IN  /\ es' = [es EXCEPT !.heap = a.heap]
           /\ lv' = [lv EXCEPT !.e_tot = a.e_tot, !.v_group = vg, !.dv = dv,
                               !.conv = check_conv(cfg, dv, de, decorr)]
    /\ gh' = [gh EXCEPT !.asm = [heap |-> es.heap, embs |-> es.embs]]
    /\ pc' = "y_head"
    /\ UNCHANGED <<args, ret, cfg>>

\* `return e_tot, v_mf_group, v_ci_group`, src/dmet_sc.py:742
CycReturn ==
    /\ pc = "y_head"
    /\ lv.icyc >= cfg.max_iter \/ lv.conv
    /\ pc' = "y_final"
    /\ UNCHANGED <<args, ret, cfg, es, lv, gh>>

\* EmbSys.scdmet after the cycle, src/dmet_sc.py:523-561
CycFinalEnergy ==
    /\ pc = "y_final"
    /\ LET a == assemble_energy(es.heap, es.embs)
       IN  /\ es' = [es EXCEPT !.heap = a.heap]
           /\ ret' = Ret(a.e_tot)
    /\ pc' = "done"
    /\ UNCHANGED <<args, cfg, lv, gh>>

NextCyc ==
    \/ CycFitCi
    \/ CycUpdateCi
    \/ CycAssemble0
    \/ CycHead
    \/ CycFitMf
    \/ CycUpdateEmbsys
    \/ CycAssemble
    \/ CycReturn
    \/ CycFinalEnergy

SpecCyc == InitCyc /\ [][NextCyc]_vars

(***************************************************************************)
(* symm_trans_mat_for_hermit, src/dmet_global_new.py:481-490, next to the  *)
(* symmetric block _decompress builds from the same packed parameters,     *)
(* src/dmet_global_new.py:241-257.  usym has n*n rows and n*(n+1)/2        *)
(* columns, both counted from 0; usym applied to p is the vector           *)
(* sum_k usym[r,k] * p[k].                                                 *)
(***************************************************************************)
SymmSizes == {1, 2, 3}

\* the loop `for j in range(i)` and the diagonal entry, without the line
\* usym[j*n+i,i*(i+1)/2+j] = 1
RECURSIVE usym_inner_lower_only(_, _, _, _)
usym_inner_lower_only(i, j, usym, n) ==
    IF j >= i
    THEN [usym EXCEPT ![<<i * n + i, (i * (i + 1)) \div 2 + i>>] = 1]
    ELSE usym_inner_lower_only(i, j + 1,
             [usym EXCEPT ![<<i * n + j, (i * (i + 1)) \div 2 + j>>] = 1], n)

RECURSIVE usym_outer_lower_only(_, _, _)
usym_outer_lower_only(i, usym, n) ==
    IF i >= n THEN usym
    ELSE usym_outer_lower_only(i + 1, usym_inner_lower_only(i, 0, usym, n), n)

\* the loop `for j in range(i)` and the diagonal entry that follows it
RECURSIVE usym_inner(_, _, _, _)
usym_inner(i, j, usym, n) ==
    IF j >= i
    THEN [usym EXCEPT ![<<i * n + i, (i * (i + 1)) \div 2 + i>>] = 1]
    ELSE usym_inner(i, j + 1,
             [usym EXCEPT ![<<i * n + j, (i * (i + 1)) \div 2 + j>>] = 1,
                          ![<<j * n + i, (i * (i + 1)) \div 2 + j>>] = 1], n)

RECURSIVE usym_outer(_, _, _)
usym_outer(i, usym, n) ==
    IF i >= n THEN usym
    ELSE usym_outer(i + 1, usym_inner(i, 0, usym, n), n)

usym_zeros(n) == [rc \in (0 .. n * n - 1) \X (0 .. NTriu(n) - 1) |-> 0]

symm_trans_mat_lower_only(n) == usym_outer_lower_only(0, usym_zeros(n), n)

symm_trans_mat_for_hermit(n) == usym_outer(0, usym_zeros(n), n)

\* numpy.dot(usym, p), p[k] kept at position k + 1
usym_dot(usym, p, n) ==
    [r \in 0 .. n * n - 1 |->
        SumSeq([k \in 1 .. NTriu(n) |-> usym[<<r, k - 1>>] * p[k]])]

\* one embedding on all of 0 .. n-1, as _decompress sees it
SymmEmbsys(n) ==
    [nao |-> n, basidx_group |-> <<[i \in 1 .. n |-> i - 1]>>,
     translational |-> FALSE,
     embs |-> <<[bas_on_frag |-> [i \in 1 .. n |-> i - 1]]>>]

InitSymm ==
    \E n \in SymmSizes :
        \E p \in [1 .. NTriu(n) -> 0 .. MaxVal] :
            /\ args = [fn |-> "symm_trans_mat_for_hermit", n |-> n, p |-> p]
            /\ es = SymmEmbsys(n)
            /\ lv = [at |-> "none"]
            /\ pc = "s_usym"
            /\ AsmIdle

SymmTransMat ==
    /\ pc = "s_usym"
    /\ lv' = [at |-> "usym", usym |-> symm_trans_mat_for_hermit(args.n)]
    /\ pc' = "s_dot"
    /\ UNCHANGED <<args, ret, cfg, es, gh>>

SymmDot ==
    /\ pc = "s_dot"
    /\ lv' = [lv EXCEPT !.at = "dense"] @@
             [dense |-> usym_dot(lv.usym, args.p, args.n)]
    /\ pc' = "s_decompress"
    /\ UNCHANGED <<args, ret, cfg, es, gh>>

SymmDecompress ==
    /\ pc = "s_decompress"
    /\ ret' = Ret(decompress(es, args.p))
    /\ pc' = "done"
    /\ UNCHANGED <<args, cfg, es, lv, gh>>

NextSymm ==
    \/ SymmTransMat
    \/ SymmDot
    \/ SymmDecompress

SpecSymm == InitSymm /\ [][NextSymm]_vars

(***************************************************************************)
(* The potential handed to the correlated solver for the reference density *)
(* matrix of FIT_MF and for the energy of ASSEMBLE_ENERGY.                 *)
(* dmet_global_new keeps one number vfit_ci[m] per embedding and passes    *)
(* numpy.eye(nimp) times a number, src/dmet_global_new.py:146-152 and      *)
(* 404-407; dmet_sc passes the matrix emb.vfit_ci, src/dmet_sc.py:407 and  *)
(* 594.  lv.fit_pot and lv.asm_pot collect the potentials of the solver    *)
(* calls, one per embedding.                                               *)
(***************************************************************************)
\* `dv = numpy.eye(nimp) * embsys.vfit_ci[0]`, src/dmet_global_new.py:406
gn_fit_potential(embsys, m) ==
    gn_trial_vmat(Len(embsys.embs[m].bas_on_frag), embsys.vfit_ci[1])

\* `dv = numpy.eye(nimp) * self.vfit_ci[m]`, src/dmet_global_new.py:148
gn_asm_potential(embsys, m) ==
    gn_trial_vmat(Len(embsys.embs[m].bas_on_frag), embsys.vfit_ci[m])

\* embsys.solver.run(emb, emb._eri, emb.vfit_ci, ...), src/dmet_sc.py:594
sc_fit_potential(embsys, m) == embsys.embs[m].vfit_ci

\* self.solver.run(emb, emb._eri, emb.vfit_ci, ...), src/dmet_sc.py:407
sc_asm_potential(embsys, m) == embsys.embs[m].vfit_ci

InitPot ==
    \E l \in AsmLayouts, t \in BOOLEAN, d \in {"sc", "gn"} :
        /\ t => (EqualSize(l.basidx_group) /\ d = "gn")
        /\ LET n == gn_n_embs(l.basidx_group, t)
           IN  \E c \in [1 .. n -> 0 .. MaxVal] :
                   es = [driver |-> d, nao |-> l.nao,
                         basidx_group |-> l.basidx_group, translational |-> t,
                         vfit_ci |-> c,
                         embs |-> [m \in 1 .. n |->
                             [bas_on_frag |-> l.basidx_group[m],
                              vfit_ci |-> Const(Len(l.basidx_group[m]) + NBath,
                                                c[m])]]]
        /\ args = [fn |-> "vfit_mf_method"]
        /\ lv = [m |-> 1, fit_pot |-> <<>>, asm_pot |-> <<>>]
        /\ pc = "p_fit"
        /\ AsmIdle

\* one pass of the loop over the embeddings in FIT_MF
PotFit ==
    /\ pc = "p_fit"
    /\ lv.m <= Len(es.embs)
    /\ lv' = [lv EXCEPT !.m = @ + 1,
                        !.fit_pot = Append(@, IF es.driver = "gn"
                                              THEN gn_fit_potential(es, lv.m)
                                              ELSE sc_fit_potential(es, lv.m))]
    /\ UNCHANGED <<args, ret, cfg, es, pc, gh>>

PotFitDone ==
    /\ pc = "p_fit"
    /\ lv.m > Len(es.embs)
    /\ lv' = [lv EXCEPT !.m = 1]
    /\ pc' = "p_asm"
    /\ UNCHANGED <<args, ret, cfg, es, gh>>

\* one pass of the loop over the embeddings in assemble_frag_energy
PotAsm ==
    /\ pc = "p_asm"
    /\ lv.m <= Len(es.embs)
    /\ lv' = [lv EXCEPT !.m = @ + 1,
                        !.asm_pot = Append(@, IF es.driver = "gn"
                                              THEN gn_asm_potential(es, lv.m)
                                              ELSE sc_asm_potential(es, lv.m))]
    /\ UNCHANGED <<args, ret, cfg, es, pc, gh>>

PotAsmDone ==
    /\ pc = "p_asm"
    /\ lv.m > Len(es.embs)
    /\ pc' = "done"
    /\ UNCHANGED <<args, ret, cfg, es, lv, gh>>

NextPot ==
    \/ PotFit
    \/ PotFitDone
    \/ PotAsm
    \/ PotAsmDone

SpecPot == InitPot /\ [][NextPot]_vars

(***************************************************************************)
(* C1: _check_conv returns true exactly when decorr is strictly below its  *)
(* threshold and dv or de is strictly below its own threshold, with the    *)
(* thresholds conv_threshold_vfit / conv_threshold_etot /                  *)
(* conv_threshold_corr when positive and conv_threshold, 0.1 *             *)
(* conv_threshold, conv_threshold otherwise; convergence is never          *)
(* declared while decorr is at or above its threshold.                     *)
(***************************************************************************)
ThrVfit == IF cfg.conv_threshold_vfit > 0 THEN cfg.conv_threshold_vfit
           ELSE cfg.conv_threshold
ThrCorr == IF cfg.conv_threshold_corr > 0 THEN cfg.conv_threshold_corr
           ELSE cfg.conv_threshold
DeBelow == IF cfg.conv_threshold_etot > 0 THEN args.de < cfg.conv_threshold_etot
           ELSE 10 * args.de < cfg.conv_threshold

C1_CheckConvExact ==
    ret.done =>
        /\ ret.val = (args.decorr < ThrCorr /\ (args.dv < ThrVfit \/ DeBelow))
        /\ (args.decorr >= ThrCorr => ret.val = FALSE)

C1_Witness ==
    /\ ret.done
    /\ ret.val = TRUE
    /\ args.dv >= ThrVfit
    /\ cfg.conv_threshold_etot <= 0
    /\ cfg.conv_threshold_corr > 0

(***************************************************************************)
(* C2: the outer loop ends after at most max_iter iterations: at most      *)
(* max_iter FIT_MF and RESOLVE_GLOBAL (update_embsys) steps are made, the  *)
(* loop is left at the first iteration whose convergence test is true,     *)
(* nothing is executed after that iteration but the return, and the        *)
(* driver is never stuck before it has returned.                           *)
(***************************************************************************)
C2_LoopBounded ==
    /\ gh.n_update <= cfg.max_iter
    /\ gh.n_fit_mf <= cfg.max_iter
    /\ gh.n_check <= cfg.max_iter
    /\ lv.icyc <= cfg.max_iter
    /\ gh.conv_seen =>
          /\ pc \in {"ret", "g_ret", "done"}
          /\ gh.n_check = gh.it
          /\ gh.n_update = gh.it
          /\ gh.n_fit_mf = gh.it
    /\ pc # "done" => ENABLED Next

C2_Witness ==
    /\ pc = "done"
    /\ es.driver = "sc"
    /\ gh.conv_seen
    /\ gh.it = 2
    /\ gh.it = cfg.max_iter

(***************************************************************************)
(* C3: when max_iter iterations were executed and no convergence test was  *)
(* true, the driver returns (it raises nothing) the total energy and the   *)
(* two potential groups of the last executed iteration, those of the       *)
(* iteration-0 evaluation when max_iter = 0.                               *)
(***************************************************************************)
C3_ExhaustedReturnsLast ==
    (pc = "done" /\ ~gh.conv_seen) =>
        /\ ret.done
        /\ gh.last.done
        /\ gh.last.it = cfg.max_iter
        /\ gh.n_check = cfg.max_iter
        /\ ret.val.e_tot = gh.last.e_tot
        /\ ret.val.v_mf_group = gh.last.v_mf_group
        /\ ret.val.v_ci_group = gh.last.v_ci_group

C3_Witness ==
    /\ pc = "done"
    /\ es.driver = "sc"
    /\ ~gh.conv_seen
    /\ cfg.max_iter = 2
    /\ ret.val.e_tot # lv.e_tot_old
    /\ ret.val.v_mf_group # lv.v_group_old[1]

(***************************************************************************)
(* C4 as claimed: the stages follow one another in the order INIT,         *)
(* FIT_MF, RESOLVE_GLOBAL, FIT_CORR, ASSEMBLE_ENERGY, CHECK_CONV, then     *)
(* FIT_MF again or DONE; FIT_CORR and ASSEMBLE_ENERGY only occur after a   *)
(* FIT_MF and a RESOLVE_GLOBAL of the same iteration.                      *)
(***************************************************************************)
ClaimedOrder ==
    {<<"START", "START">>, <<"START", "INIT">>, <<"INIT", "FIT_MF">>,
     <<"FIT_MF", "RESOLVE_GLOBAL">>, <<"RESOLVE_GLOBAL", "FIT_CORR">>,
     <<"FIT_CORR", "ASSEMBLE_ENERGY">>, <<"ASSEMBLE_ENERGY", "CHECK_CONV">>,
     <<"CHECK_CONV", "FIT_MF">>, <<"CHECK_CONV", "DONE">>}

C4_OrderAsClaimed ==
    /\ <<gh.prev, gh.stage>> \in ClaimedOrder
    /\ gh.stage \in {"FIT_CORR", "ASSEMBLE_ENERGY"} =>
          (gh.mf_it = gh.it /\ gh.rg_it = gh.it)

(***************************************************************************)
(* C4 amended: INIT is followed by FIT_CORR and ASSEMBLE_ENERGY, the       *)
(* iteration-0 evaluation made without FIT_MF and RESOLVE_GLOBAL; every    *)
(* iteration of the loop then runs FIT_MF, RESOLVE_GLOBAL, FIT_CORR,       *)
(* ASSEMBLE_ENERGY, CHECK_CONV and is followed by FIT_MF or DONE (DONE     *)
(* follows the iteration-0 ASSEMBLE_ENERGY when max_iter = 0); within an   *)
(* iteration of the loop FIT_CORR and ASSEMBLE_ENERGY only occur after     *)
(* the FIT_MF and the RESOLVE_GLOBAL of that iteration.                    *)
(***************************************************************************)
CodeOrder ==
    {<<"START", "START">>, <<"START", "INIT">>, <<"INIT", "FIT_CORR">>,
     <<"FIT_CORR", "ASSEMBLE_ENERGY">>, <<"ASSEMBLE_ENERGY", "FIT_MF">>,
     <<"ASSEMBLE_ENERGY", "DONE">>,
     <<"FIT_MF", "RESOLVE_GLOBAL">>, <<"RESOLVE_GLOBAL", "FIT_CORR">>,
     <<"ASSEMBLE_ENERGY", "CHECK_CONV">>,
     <<"CHECK_CONV", "FIT_MF">>, <<"CHECK_CONV", "DONE">>}

C4_StageOrder ==
    /\ <<gh.prev, gh.stage>> \in CodeOrder
    /\ gh.prev = "INIT" => gh.it = 0
    /\ <<gh.prev, gh.stage>> = <<"ASSEMBLE_ENERGY", "FIT_MF">> => gh.it = 1
    /\ <<gh.prev, gh.stage>> = <<"ASSEMBLE_ENERGY", "DONE">> => cfg.max_iter = 0
    /\ <<gh.prev, gh.stage>> = <<"ASSEMBLE_ENERGY", "CHECK_CONV">> => gh.it >= 1
    /\ <<gh.prev, gh.stage>> = <<"RESOLVE_GLOBAL", "FIT_CORR">> => gh.it >= 1
    /\ (gh.it = 0 /\ gh.stage \in {"FIT_CORR", "ASSEMBLE_ENERGY"}) =>
          (gh.mf_it = -1 /\ gh.rg_it = -1)
    /\ (gh.it >= 1 /\ gh.stage \in {"RESOLVE_GLOBAL", "FIT_CORR",
                                    "ASSEMBLE_ENERGY", "CHECK_CONV"}) =>
          (gh.mf_it = gh.it /\ gh.rg_it = gh.it)

C4_Witness ==
    /\ gh.stage = "CHECK_CONV"
    /\ gh.it = 2
    /\ gh.mf_it = 2
    /\ gh.rg_it = 2

(***************************************************************************)
(* C5: every energy assembly, the iteration-0 one included and in both     *)
(* drivers, uses the embeddings built on the current mean-field reference  *)
(* and the vfit_ci that FIT_CORR fitted on those embeddings: between that  *)
(* FIT_CORR and the assembly no update_embsys is made and vfit_mf does     *)
(* not change.                                                             *)
(***************************************************************************)
C5_EnergyOnFittedEmbeddings ==
    gh.asm.done =>
        /\ \A m \in 1 .. NEmb :
              /\ gh.asm.built_on[m] = gh.asm.scf
              /\ gh.asm.ci_on[m] = gh.asm.built_on[m]
        /\ gh.asm.ci_used = gh.asm.ci_fit
        /\ gh.asm.n_update = gh.asm.ci_upd
        /\ gh.asm.mf_now = gh.asm.ci_mf

C5_Witness ==
    /\ gh.asm.done
    /\ es.driver = "gn"
    /\ gh.asm.it = 2
    /\ gh.asm.scf = 2
    /\ gh.asm.mf_now # gh.mf_fit \/ gh.asm.mf_now[1].o > 0

(***************************************************************************)
(* C6 as claimed: for both settings of the translational flag, packing     *)
(* the unpacked v_group gives v_group back: pack(unpack(v_group)) =        *)
(* v_group, same number of entries and same entries.                       *)
(***************************************************************************)
C6_RoundTripAsClaimed ==
    (pc = "done" /\ args.fn = "unpack") => ret.val = args.v_group

(***************************************************************************)
(* C6 amended: without the translational flag pack(unpack(v_group)) =      *)
(* v_group; with it, unpack reads v_group[0] alone and                     *)
(* pack(unpack(v_group)) holds v_group[0] once per fragment of             *)
(* basidx_group, which is v_group exactly when all its entries are equal.  *)
(***************************************************************************)
C6_RoundTrip ==
    (pc = "done" /\ args.fn = "unpack") =>
        /\ Len(ret.val) = Len(es.basidx_group)
        /\ ~es.translational => ret.val = args.v_group
        /\ es.translational =>
              /\ \A k \in 1 .. Len(es.basidx_group) : ret.val[k] = args.v_group[1]
              /\ (ret.val = args.v_group) <=>
                    (\A k \in 1 .. Len(args.v_group) :
                         args.v_group[k] = args.v_group[1])

C6_Witness ==
    /\ pc = "done"
    /\ args.fn = "unpack"
    /\ es.translational
    /\ Len(es.basidx_group[1]) = 2
    /\ ret.val # args.v_group
    /\ ret.val[2] = args.v_group[1]

(***************************************************************************)
(* C7: for one fragment without symmetry copies (a plain index list in     *)
(* dmet_sc; in dmet_global_new the translational flag off, or the          *)
(* fragment being the whole basis) assemble_frag_energy returns as e_tot   *)
(* and nelec exactly the e_frag and nelec_frag that extract_frag_energy    *)
(* gives for the solver's density matrix and two-electron energy.          *)
(***************************************************************************)
ScExtracted(m) ==
    extract_frag_energy(es.solver_is_mp2, es.embs[m],
                        DmOut(lv.outs[m], es.embs[m]), lv.outs[m].e2frag)

GnExtracted(m) ==
    gn_extract_frag_energy(es.embs[m], DmOut(lv.outs[m], es.embs[m]),
                           lv.outs[m].e2frag)

SingleSc == es.driver = "esc" /\ Len(es.basidx_group) = 1 /\ ~es.basidx_group[1].sym

SingleGn ==
    /\ es.driver = "egn"
    /\ Len(es.basidx_group) = 1
    /\ ~es.translational \/ es.nao = Len(es.basidx_group[1])

C7_SingleFragmentExact ==
    (pc = "done" /\ args.fn = "assemble_frag_energy") =>
        /\ SingleSc => /\ ret.val.e_tot = ScExtracted(1).e_frag
                       /\ ret.val.nelec = ScExtracted(1).nelec_frag
        /\ SingleGn => /\ ret.val.e_tot = GnExtracted(1).e_frag
                       /\ ret.val.nelec = GnExtracted(1).nelec_frag

C7_Witness ==
    /\ pc = "done"
    /\ args.fn = "assemble_frag_energy"
    /\ SingleSc
    /\ Len(es.basidx_group[1].copies[1]) = 2
    /\ ~es.solver_is_mp2
    /\ lv.outs[1].q > 0
    /\ lv.outs[1].e2frag > 0
    /\ ret.val.e_tot > lv.outs[1].e2frag
    /\ ret.val.nelec = 2 * lv.outs[1].p
    /\ ret.val.nelec > 0

(***************************************************************************)
(* C8: dmet_sc.assemble_frag_energy runs the solver once for every unique  *)
(* fragment; e_tot and nelec are the sums over the unique fragments of     *)
(* the number of copies times e_frag, respectively nelec_frag, and e_corr  *)
(* is the sum over all fragments of e_frag - _ehfinhf.                     *)
(***************************************************************************)
NCopies(m) == Len(es.basidx_group[m].copies)

C8_SumOverAllFragments ==
    (pc = "done" /\ es.driver = "esc") =>
        /\ \A m \in 1 .. NEmb : ret.val.ncall[m] = 1
        /\ ret.val.e_tot =
              SumSeq([m \in 1 .. NEmb |-> NCopies(m) * ScExtracted(m).e_frag])
        /\ ret.val.nelec =
              SumSeq([m \in 1 .. NEmb |-> NCopies(m) * ScExtracted(m).nelec_frag])
        /\ ret.val.e_corr =
              SumSeq([k \in 1 .. Len(es.all_frags) |->
                         ScExtracted(es.all_frags[k].m).e_frag
                         - es.embs[es.all_frags[k].m].ehfinhf])

C8_Witness ==
    /\ pc = "done"
    /\ es.driver = "esc"
    /\ Len(es.all_frags) = 4
    /\ NCopies(1) = 3
    /\ ScExtracted(1).e_frag # ScExtracted(2).e_frag
    /\ ScExtracted(1).nelec_frag > 0
    /\ es.embs[1].ehfinhf # es.embs[2].ehfinhf
    /\ ret.val.e_corr # ret.val.e_tot - es.embs[1].ehfinhf - es.embs[2].ehfinhf

(***************************************************************************)
(* C9 as claimed: with the translational flag                              *)
(* dmet_global_new.assemble_frag_energy returns the representative         *)
(* fragment's energy and electron count times the number of fragments      *)
(* listed in basidx_group, whatever basidx_group and the basis size are.   *)
(***************************************************************************)
C9_TimesListedFragments ==
    (pc = "done" /\ es.driver = "egn" /\ es.translational) =>
        /\ ret.val.e_tot = Len(es.basidx_group) * GnExtracted(1).e_frag
        /\ ret.val.nelec = Len(es.basidx_group) * GnExtracted(1).nelec_frag

(***************************************************************************)
(* C10: with the translational flag, the global matrix that _decompress    *)
(* builds from a parameter vector, and the recentred solution made of it,  *)
(* carry the same block on the index list of every fragment of             *)
(* basidx_group: the symmetric matrix of the parameters, respectively its  *)
(* recentred image.                                                        *)
(***************************************************************************)
ParamBlock == [ab \in Pos(Len(es.basidx_group[1])) |->
                  args.vfit[TrilPos(ab[1], ab[2])]]

C10_SameBlockEverywhere ==
    (args.fn = "fit_solver" /\ es.translational) =>
        /\ lv.at \in {"v", "sol"} =>
              \A k \in 1 .. Len(es.basidx_group) :
                  Block(lv.v, es.basidx_group[k]) = ParamBlock
        /\ lv.at = "sol" =>
              \A k \in 1 .. Len(es.basidx_group) :
                  Block(lv.sol, es.basidx_group[k]) =
                      Block(lv.sol, es.basidx_group[1])
        /\ ret.done => ret.val = <<Block(lv.sol, es.basidx_group[1])>>

C10_Witness ==
    /\ args.fn = "fit_solver"
    /\ es.translational
    /\ es.nao = 5
    /\ ret.done
    /\ Block(lv.v, es.basidx_group[2])[<<1, 2>>] = 1
    /\ Block(lv.v, es.basidx_group[2])[<<1, 1>>] # Block(lv.v, es.basidx_group[2])[<<2, 2>>]
    /\ Block(lv.sol, es.basidx_group[2])[<<1, 1>>] # es.nao * Block(lv.v, es.basidx_group[2])[<<1, 1>>]

(***************************************************************************)
(* C11 as claimed: every fragment matrix returned by fit_solver has        *)
(* diagonal entries of mean zero, whatever the fragment layout is.         *)
(***************************************************************************)
BlockDiagSum(blk) ==
    LET n == CHOOSE k \in 0 .. 4 : DOMAIN blk = Pos(k)
    IN  SumSeq([a \in 1 .. n |-> blk[<<a, a>>]])

C11_FragmentMeanZeroAsClaimed ==
    (args.fn = "fit_solver" /\ ret.done) =>
        \A m \in 1 .. Len(ret.val) : BlockDiagSum(ret.val[m]) = 0

(***************************************************************************)
(* C11 amended: the recentring makes the mean of the diagonal of the       *)
(* global nao x nao solution zero; the fragment matrices cut out of it     *)
(* have diagonal mean zero when the translational flag is set and the      *)
(* listed fragments tile the basis, and in general only when the           *)
(* fragment's own diagonal mean equals the global one.                     *)
(***************************************************************************)
Tiles == Len(es.basidx_group) * Len(es.basidx_group[1]) = es.nao

C11_GlobalMeanZero ==
    (args.fn = "fit_solver" /\ lv.at = "sol") =>
        /\ DiagSum(lv.sol, es.nao) = 0
        /\ \A ij \in Idx(es.nao) :
              ij[1] # ij[2] => lv.sol[ij] = es.nao * lv.v[ij]
        /\ ret.done =>
              \A m \in 1 .. Len(ret.val) :
                  /\ (es.translational /\ Tiles) => BlockDiagSum(ret.val[m]) = 0
                  /\ BlockDiagSum(ret.val[m]) = 0 <=>
                        es.nao * BlockDiagSum(Block(lv.v, es.embs[m].bas_on_frag))
                            = Len(es.embs[m].bas_on_frag) * DiagSum(lv.v, es.nao)

C11_Witness ==
    /\ args.fn = "fit_solver"
    /\ ret.done
    /\ es.translational
    /\ Tiles
    /\ es.nao = 4
    /\ DiagSum(lv.v, es.nao) > 0
    /\ ret.val[1][<<1, 1>>] # ret.val[1][<<2, 2>>]
    /\ ret.val[1][<<1, 2>>] # 0

(***************************************************************************)
(* C12 as claimed: every matrix the root search hands to the solver is     *)
(* vfit_ci with the trial value added to the impurity diagonal and the     *)
(* rest as in vfit_ci, and the matrix returned is built by the same rule   *)
(* from the accepted value.                                                *)
(***************************************************************************)
ImpDiag(ab) == ab[1] = ab[2] /\ ab[1] <= es.nimp
ImpBlock(ab) == ab[1] <= es.nimp /\ ab[2] <= es.nimp

C12_DiagonalAddedAsClaimed ==
    es.driver = "csc" =>
        /\ (pc = "c_find" /\ lv.ntrial > 0) =>
              \A ab \in DOMAIN es.vfit_ci :
                  lv.handed[ab] = es.vfit_ci[ab] + (IF ImpDiag(ab) THEN lv.v ELSE 0)
        /\ pc = "c_store" =>
              \A ab \in DOMAIN lv.old :
                  ret.val[ab] = lv.old[ab] + (IF ImpDiag(ab) THEN lv.v ELSE 0)

(***************************************************************************)
(* C12 amended: the matrix handed to the solver for a trial value v is     *)
(* vfit_ci with its impurity block replaced by v times the identity        *)
(* (dmet_global_new: the nimp x nimp matrix v times the identity), the     *)
(* entries outside that block as in vfit_ci; the matrix returned is        *)
(* vfit_ci with its impurity diagonal set to the accepted value and every  *)
(* other entry as in vfit_ci (dmet_global_new returns the value itself).   *)
(***************************************************************************)
C12_ImpurityBlockReplaced ==
    /\ (es.driver = "csc" /\ pc = "c_find" /\ lv.ntrial > 0) =>
          /\ DOMAIN lv.handed = DOMAIN es.vfit_ci
          /\ \A ab \in DOMAIN es.vfit_ci :
                lv.handed[ab] = IF ImpDiag(ab) THEN lv.v
                                ELSE IF ImpBlock(ab) THEN 0 ELSE es.vfit_ci[ab]
    /\ (es.driver = "csc" /\ pc = "c_store") =>
          /\ DOMAIN ret.val = DOMAIN lv.old
          /\ \A ab \in DOMAIN lv.old :
                ret.val[ab] = IF ImpDiag(ab) THEN lv.v ELSE lv.old[ab]
    /\ (es.driver = "cgn" /\ pc = "c_find" /\ lv.ntrial > 0) =>
          /\ DOMAIN lv.handed = Pos(es.nimp)
          /\ \A ab \in Pos(es.nimp) :
                lv.handed[ab] = IF ImpDiag(ab) THEN lv.v ELSE 0
    /\ (es.driver = "cgn" /\ pc = "c_store") => ret.val = lv.v

C12_Witness ==
    /\ es.driver = "csc"
    /\ pc = "c_store"
    /\ lv.round = 2
    /\ es.nimp = 2
    /\ lv.old[<<1, 1>>] > 0
    /\ lv.old[<<1, 3>>] > 0
    /\ lv.v # lv.old[<<1, 1>>]
    /\ lv.ntrial = 2

ChemFailed == pc \in {"c_store", "raised"} /\ ~lv.conv

C14_FailureFlaggedAsClaimed ==
    ChemFailed =>
        /\ ~ret.raised
        /\ ret.val = (IF es.driver = "csc"
                      THEN final_vmat(lv.old, es.nimp, lv.v) ELSE lv.v)
        /\ ret.diagnostic # "none"

(***************************************************************************)
(* C15 as claimed: when the whole-system solver or the embedded SCF of     *)
(* update_embs_vfit_ci reports that it did not converge, the driver does   *)
(* not go on: embeddings are not rebuilt from the unconverged reference    *)
(* and no later stage of the iteration is entered.                         *)
(***************************************************************************)
C15_UnconvergedIsFatal ==
    /\ pc \in {"r_fit_ci", "r_energy"} => es.heap[es.entire_scf].scf_conv
    /\ pc = "r_energy" => lv.emb_conv

(***************************************************************************)
(* C17 as claimed: a RESOLVE_GLOBAL step installs a new reference object   *)
(* and leaves the previous one as it was: its orbital coefficients,        *)
(* orbital energies, occupations, convergence flag and core Hamiltonian    *)
(* read the same after the step as before it.                              *)
(***************************************************************************)
C17_OldReferenceUntouched ==
    pc \in {"r_embs", "r_fit_ci", "r_energy"} =>
        /\ es.entire_scf # gh.old_id
        /\ ObjView(es.heap, es.arrs, es.h0, gh.old_id) = gh.old

(***************************************************************************)
(* C18: in every RESOLVE_GLOBAL step the core Hamiltonian the external     *)
(* solver sees is the unperturbed one plus the potential of this step      *)
(* only, and after the step the accessor of the installed reference, which *)
(* update_embs reads, yields the unperturbed core Hamiltonian again.       *)
(***************************************************************************)
C18_HcoreNotCompounded ==
    /\ pc = "r_release" => lv.h_seen = es.h0 + lv.vext
    /\ pc \in {"r_embs", "r_fit_ci", "r_energy"} =>
          get_hcore(es.heap, es.h0, es.entire_scf) = es.h0
    /\ pc \in {"r_fit_ci", "r_energy"} => lv.h_embs = es.h0

C18_Witness ==
    /\ pc = "r_fit_ci"
    /\ lv.icyc = 1
    /\ gh.vext_before > 0
    /\ lv.vext > 0
    /\ lv.h_seen = es.h0 + lv.vext

(***************************************************************************)
(* C16 as claimed: when some fragment's basis-index list is empty, the     *)
(* build raises before a solver is invoked: neither the mean-field solver  *)
(* nor the correlated solver is ever called, and the build does not end    *)
(* normally.                                                               *)
(***************************************************************************)
HasEmptyFragment ==
    \E k \in 1 .. Len(all_lists(es)) : Len(all_lists(es)[k]) = 0

C16_EmptyFragmentRejected ==
    HasEmptyFragment =>
        /\ pc # "b_done"
        /\ lv.mf_calls = 0
        /\ lv.ci_calls = 0

(***************************************************************************)
(* C19 as claimed: the matrix dmet_sc assembles from symmetric fragment    *)
(* matrices over disjoint fragments is symmetric, and it is zero outside   *)
(* the fragments' diagonal blocks in block-diagonal mode, zero outside the *)
(* rows and columns of the fragments in hopping mode.                      *)
(***************************************************************************)
InSomeFrag(i) ==
    \E k \in 1 .. Len(es.all_frags) : InFrag(es.all_frags[k].bas_idx, i)
InSameFrag(i, j) ==
    \E k \in 1 .. Len(es.all_frags) :
        InFrag(es.all_frags[k].bas_idx, i) /\ InFrag(es.all_frags[k].bas_idx, j)

C19_SymmetricBlocks ==
    pc = "done" =>
        /\ \A ij \in Idx(es.nao) : ret.val[ij] = ret.val[<<ij[2], ij[1]>>]
        /\ \A ij \in Idx(es.nao) :
              IF es.with_hopping
              THEN ~(InSomeFrag(ij[1]) \/ InSomeFrag(ij[2])) => ret.val[ij] = 0
              ELSE ~InSameFrag(ij[1], ij[2]) => ret.val[ij] = 0

(***************************************************************************)
(* C20 as claimed: after assembly, in either mode, the diagonal block of   *)
(* the result on every symmetry copy's own index list is the impurity      *)
(* block of the matrix of the copy's unique fragment.                      *)
(***************************************************************************)
C20_EveryCopyFilled ==
    pc = "done" =>
        \A k \in 1 .. Len(es.all_frags) :
            Block(ret.val, es.all_frags[k].bas_idx)
                = Slice(lv.v_mf_group[es.all_frags[k].m],
                        Len(es.all_frags[k].bas_idx))

(***************************************************************************)
(* C21: for every fragment specification gen_frag_looper accepts,          *)
(* all_frags has one entry per symmetry copy and uniq_frags one per        *)
(* symmetry class: uniq_frags[m] carries the identifier m and the first    *)
(* copy of class m, every identifier in all_frags is that of an entry of   *)
(* uniq_frags, the entries of a class are contiguous, and build_ makes     *)
(* one embedding per entry of uniq_frags with that entry's index list.     *)
(***************************************************************************)
CopiesOf(entry) == IF entry.copies THEN entry.idx ELSE <<entry.idx>>

C21_LooperLists ==
    (es.driver = "sc" /\ pc \in {"b_init_v", "b_embs", "b_embscf", "b_fit_ci", "b_done"}) =>
        LET g == looper_group(es)
            af == lv.all_frags
            uf == lv.uniq_frags
        IN  /\ Len(uf) = Len(g)
            /\ Len(af) = SumSeq([m \in 1 .. Len(g) |-> Len(CopiesOf(g[m]))])
            /\ \A m \in 1 .. Len(g) :
                  /\ uf[m].m = m - 1
                  /\ uf[m].bas_idx = CopiesOf(g[m])[1]
                  /\ \A c \in 1 .. Len(CopiesOf(g[m])) :
                        LET pos == SumSeq([j \in 1 .. m - 1 |-> Len(CopiesOf(g[j]))]) + c
                        IN  af[pos].m = m - 1 /\ af[pos].bas_idx = CopiesOf(g[m])[c]
            /\ \A k \in 1 .. Len(af) : af[k].m \in {uf[m].m : m \in 1 .. Len(uf)}
            /\ \A i, j \in 1 .. Len(af) :
                  (i < j /\ af[i].m = af[j].m) =>
                      \A k \in i .. j : af[k].m = af[i].m
            /\ pc \in {"b_embscf", "b_fit_ci", "b_done"} =>
                  /\ Len(lv.embs) = Len(uf)
                  /\ \A m \in 1 .. Len(uf) : lv.embs[m].bas_on_frag = uf[m].bas_idx

C21_Witness ==
    /\ es.driver = "sc"
    /\ pc = "b_done"
    /\ Len(lv.uniq_frags) = 2
    /\ Len(lv.all_frags) = 3
    /\ lv.all_frags[1].m = 0 /\ lv.all_frags[2].m = 0 /\ lv.all_frags[3].m = 1
    /\ lv.all_frags[2].bas_idx # lv.all_frags[1].bas_idx

(***************************************************************************)
(* C22 as claimed: in both drivers the test that ends the outer loop is    *)
(* made against the thresholds configured on the driver object, and the    *)
(* relative energy change it uses or reports is that between the energy of *)
(* this iteration and the energy of the iteration before.                  *)
(***************************************************************************)
C22_ConfiguredThresholds ==
    gh.stage = "CHECK_CONV" =>
        /\ lv.de = rel_change(gh.e_prev, lv.e_tot)
        /\ es.driver = "sc" =>
              gh.conv_seen = check_conv(cfg, lv.dv, lv.de, lv.decorr)
        /\ es.driver = "gn" => gh.conv_seen = (lv.dv < cfg.conv_threshold)

(***************************************************************************)
(* C23: re-fitting at a fixed point is idempotent.  When the update of the *)
(* least-squares solver is zero, FIT_MF returns for every fragment and     *)
(* every damping factor a potential equal to the current vfit_mf, and the  *)
(* dv of that iteration is zero.                                           *)
(***************************************************************************)
ZeroUpdate ==
    IF es.driver = "fsc"
    THEN \A m \in 1 .. Len(es.nimps) :
             \A ab \in DOMAIN args.dv_fit[m] : args.dv_fit[m][ab] = 0
    ELSE LET sol == recentre_times_nao(decompress(es, args.vfit), es.nao)
         IN  \A ij \in Idx(es.nao) : sol[ij] = 0

C23_RefitIdempotent ==
    (pc = "done" /\ ZeroUpdate) =>
        /\ lv.dv = 0
        /\ \A m \in 1 .. Len(es.vfit_mf) :
               /\ DOMAIN lv.v_mf_group[m] = DOMAIN es.vfit_mf[m]
               /\ \A ab \in DOMAIN es.vfit_mf[m] :
                      lv.v_mf_group[m][ab] =
                          (IF es.driver = "fsc" THEN 1 ELSE es.nao)
                              * es.vfit_mf[m][ab]

C23_Witness ==
    /\ pc = "done"
    /\ ZeroUpdate
    /\ es.driver = "fsc"
    /\ es.fitpot_damp_fac2 = 1
    /\ es.nimps = <<2, 1>>
    /\ es.vfit_mf[1][<<2, 1>>] > 0
    /\ es.vfit_mf[1][<<3, 3>>] > 0
    /\ lv.v_mf_group[1][<<2, 1>>] > 0

(***************************************************************************)
(* C24: dv depends only on the off-diagonal impurity-block entries of the  *)
(* mean-field potentials of the unique fragments.  It is zero exactly when *)
(* those entries are the same in the two potential sets, its value is the  *)
(* norm of their differences whatever the diagonal entries, the bath       *)
(* entries and vfit_ci are, and it is zero when every fragment has a       *)
(* single basis function.                                                  *)
(***************************************************************************)
FitNimp(m) ==
    IF es.driver = "fsc" THEN es.nimps[m] ELSE Len(es.embs[m].bas_on_frag)

FitScale == IF es.driver = "fsc" THEN 1 ELSE es.nao

\* the number of fragments one unique fragment stands for
FitWeight ==
    IF es.driver = "fgn" /\ es.translational THEN Len(es.basidx_group) ELSE 1

OffDiagChange(m) ==
    LET n == FitNimp(m)
    IN  SumSeq([k \in 1 .. n * n |->
            LET a == ((k - 1) \div n) + 1
                b == ((k - 1) % n) + 1
            IN  IF a = b THEN 0
                ELSE SqDiff(lv.v_mf_group[m][<<a, b>>] \div FitScale,
                            es.vfit_mf[m][<<a, b>>])])

OffDiagSame(m) ==
    \A a, b \in 1 .. FitNimp(m) :
        a # b => lv.v_mf_group[m][<<a, b>>] = FitScale * es.vfit_mf[m][<<a, b>>]

C24_DvOffDiagonalOnly ==
    pc = "done" =>
        /\ (lv.dv = 0) <=> (\A m \in 1 .. Len(es.vfit_mf) : OffDiagSame(m))
        /\ lv.dv = ISqrt(SumSeq([m \in 1 .. Len(es.vfit_mf) |->
                       (IF es.driver = "fsc" THEN 2 ELSE FitWeight)
                           * OffDiagChange(m)]))
        /\ (\A m \in 1 .. Len(es.vfit_mf) : FitNimp(m) = 1) => lv.dv = 0

C24_Witness ==
    /\ pc = "done"
    /\ es.driver = "fsc"
    /\ es.nimps = <<2, 1>>
    /\ lv.dv = 0
    /\ lv.v_mf_group[1][<<1, 1>>] # es.vfit_mf[1][<<1, 1>>]
    /\ lv.v_mf_group[2][<<2, 2>>] # es.vfit_mf[2][<<2, 2>>]
    /\ args.v_ci[1][<<1, 1>>] # es.vfit_ci[1][<<1, 1>>]
    /\ es.vfit_mf[1][<<2, 1>>] > 0

(***************************************************************************)
(* C25: with state following, the occupation vector has only the values 0  *)
(* and 2 and exactly nelectron/2 entries equal to 2 after every call of    *)
(* _occ_follow_state, whatever the overlap between the new and the         *)
(* previous orbitals is.                                                   *)
(***************************************************************************)
NOccupied(mo_occ) == Cardinality({i \in 1 .. Len(mo_occ) : mo_occ[i] = 2})

C25_ElectronCountPreserved ==
    /\ \A i \in 1 .. es.n : es.mo_occ[i] \in {0, 2}
    /\ NOccupied(es.mo_occ) = es.nocc

(***************************************************************************)
(* C26: within FIT_MF and FIT_CORR of dmet_sc, the potential of fragment m *)
(* is computed from that fragment's embedding and the configuration only   *)
(* and no embedding is modified: in whatever order the fragments are       *)
(* taken, every embedding is as it was when the stage began and the        *)
(* potential stored for fragment m is the one that follows from embs[m].   *)
(***************************************************************************)
ExpectedMf(m) ==
    LET full == add_block(gh.view[m].vfit_mf,
                    fitpot_damp(Const(es.nimps[m], 2 * args.dv[m]),
                                es.fitpot_damp_fac2))
    IN  IF es.mf_block THEN Slice(full, es.nimps[m]) ELSE full

ExpectedCi(m) ==
    LET full == [ab \in DOMAIN gh.view[m].vfit_ci |->
                    IF ab[1] = ab[2] /\ ab[1] <= es.nimps[m]
                    THEN args.v1[m] ELSE gh.view[m].vfit_ci[ab]]
    IN  IF es.ci_block THEN Slice(full, es.nimps[m]) ELSE full

C26_FitsShareNoState ==
    pc \in {"y_ci0", "y_fit_mf", "y_fit_ci"} =>
        /\ EmbView(es.heap, es.embs) = gh.view
        /\ \A m \in (1 .. Len(es.embs)) \ lv.todo :
               IF pc = "y_fit_mf"
               THEN es.heap[lv.v_mf_group[m]] = ExpectedMf(m)
               ELSE es.heap[lv.v_ci_group[m]] = ExpectedCi(m)

C26_Witness ==
    /\ pc = "y_fit_mf"
    /\ lv.todo = {}
    /\ Len(es.embs) = 2
    /\ lv.v_mf_group[2] < lv.v_mf_group[1]
    /\ args.dv[1] > 0
    /\ lv.icyc = 2
    /\ gh.view[1].vfit_ci[<<1, 1>>] > 0

(***************************************************************************)
(* C28: during an outer iteration of dmet_sc_cycle no stage writes into a  *)
(* matrix that v_group_old refers to, whatever the size of the returned    *)
(* potentials, and the dv of the iteration is the difference between the   *)
(* potentials returned by the previous iteration and the current ones.     *)
(***************************************************************************)
C28_OldPotentialsUntouched ==
    (pc \in {"y_fit_mf", "y_fit_ci", "y_asm"} \/ (pc = "y_head" /\ lv.icyc > 0)) =>
        /\ Vals(es.heap, lv.v_group_old[1]) = gh.old_mf
        /\ Vals(es.heap, lv.v_group_old[2]) = gh.old_ci
        /\ pc = "y_head" =>
               lv.dv = diff_vfit_mat(es.nimps,
                           <<Vals(es.heap, lv.v_group[1]),
                             Vals(es.heap, lv.v_group[2])>>,
                           <<gh.old_mf, gh.old_ci>>)

(***************************************************************************)
(* C30: the energy EmbSys.scdmet returns, assembled once more after        *)
(* dmet_sc_cycle, is the e_tot of the last energy assembly of the cycle:   *)
(* the embeddings and the potentials are, after the final assembly, what   *)
(* they were before the last assembly of the cycle.                        *)
(***************************************************************************)
C30_FinalEnergyIsLast ==
    pc = "done" =>
        /\ ret.val = lv.e_tot
        /\ es.heap = gh.asm.heap
        /\ es.embs = gh.asm.embs

C30_Witness ==
    /\ pc = "done"
    /\ lv.icyc = 2
    /\ ret.val > 0
    /\ args.dv[1] > 0
    /\ args.v1[1] > 0
    /\ es.heap[es.embs[1].vfit_ci][<<1, 1>>] > 0
    /\ es.heap[es.embs[1].vfit_mf][<<2, 1>>] > 0

(***************************************************************************)
(* C27: for every block size n and packed vector p, the matrix of          *)
(* symm_trans_mat_for_hermit(n) applied to p is the row-major flattening   *)
(* of the symmetric matrix _decompress builds from p, with the parameter   *)
(* of position (i,j), i >= j, at i(i+1)/2+j; every dense position is fed   *)
(* by exactly one parameter, and (i,j) and (j,i) by the same one.          *)
(***************************************************************************)
PackedIndex(i, j) ==
    IF i >= j THEN (i * (i + 1)) \div 2 + j ELSE (j * (j + 1)) \div 2 + i

C27_SymmTransMatchesDecompress ==
    pc = "done" =>
        \A i, j \in 0 .. args.n - 1 :
            /\ lv.dense[i * args.n + j] = ret.val[<<i, j>>]
            /\ lv.dense[i * args.n + j] = args.p[PackedIndex(i, j) + 1]
            /\ \A k \in 0 .. NTriu(args.n) - 1 :
                   lv.usym[<<i * args.n + j, k>>] =
                       (IF k = PackedIndex(i, j) THEN 1 ELSE 0)
            /\ \A k \in 0 .. NTriu(args.n) - 1 :
                   lv.usym[<<i * args.n + j, k>>] = lv.usym[<<j * args.n + i, k>>]

C27_Witness ==
    /\ pc = "done"
    /\ args.n = 3
    /\ args.p[2] > 0
    /\ args.p[4] = 0
    /\ args.p[5] > 0
    /\ lv.dense[1] > 0
    /\ lv.dense[7] > 0

(***************************************************************************)
(* C29: in FIT_MF the reference density matrix of fragment m comes from    *)
(* the solver under that fragment's own vfit_ci[m], the potential that     *)
(* ASSEMBLE_ENERGY applies to fragment m, for any number of fragments and  *)
(* either setting of the translational flag.                               *)
(***************************************************************************)
OwnPotential(m) ==
    IF es.driver = "gn"
    THEN [ab \in Pos(Len(es.embs[m].bas_on_frag)) |->
             IF ab[1] = ab[2] THEN es.vfit_ci[m] ELSE 0]
    ELSE es.embs[m].vfit_ci

C29_OwnPotentialForReference ==
    pc = "done" =>
        \A m \in 1 .. Len(es.embs) :
            /\ lv.fit_pot[m] = OwnPotential(m)
            /\ lv.fit_pot[m] = lv.asm_pot[m]

============================================================================
